---- MODULE Spec2Model ----
(***************************************************************************)
(* Realtime voice session of the chatbot: the RealtimeClient connection    *)
(* lifecycle (start / background thread / event loop / stop), the inbound  *)
(* event dispatch of _handle_message with the application callbacks of     *)
(* realtime_voice.py, and the tool execution of _execute_function; the     *)
(* speaker buffer BufferedAudioOutput of realtime_voice.py; the OAuth      *)
(* token cache OracleTokenManager and the HTTP clients BaseAPIClient and   *)
(* OracleHospitalityClient of chatbot/api.                                 *)
(*                                                                         *)
(* Texts are sequences of one-character strings; the empty text is <<>>.   *)
(* Thread t runs event loop t and opens connection t, so thread, loop and  *)
(* connection identities share the numbers 1..MaxThreads; 0 is None.       *)
(***************************************************************************)
EXTENDS Integers, Sequences, FiniteSets, TLC

\* ------------------------------------------------------------------ bounds
\* background threads (and so event loops and connections) ever created
MaxThreads == 2
\* threads of the caller that may be inside start() at the same time
NumCallers == 2
\* inbound messages the remote endpoint sends in one run of the lifecycle,
\* of the turn and of the tool specification
MaxMsgs == 1
MaxTurnMsgs == 6
MaxToolMsgs == 2
\* inbound messages in flight (received, not yet handled) per connection
MaxInflight == 1
\* stop() calls in one run
MaxStops == 2
\* frames the connection has buffered when the receive loop starts reading
MaxBurst == 3
\* BufferedAudioOutput.stop() calls in one run
MaxOutStops == 2
\* chat session ids
NumSessions == 1
\* chat requests in one run: text, voice and streaming turns, clears and
\* deletes
MaxChatOps == 2
\* tool rounds of one graph run
MaxToolRounds == 1
\* callbacks and flushes the realtime voice handler sees in one run
MaxVhEvents == 5
\* get_token_manager() calls in one run
MaxRegistryCalls == 3
\* send_audio() calls in one run
MaxAudio == 1
\* coroutines scheduled on one event loop and not yet run
MaxTasks == 2
\* add_audio() calls in one run
MaxAppends == 3
\* get_token(), invalidate_token() and API requests started in one run
MaxOps == 2
\* token fetches started in one run
MaxFetches == 3
\* times the clock is advanced in one run
MaxTicks == 1

Threads == 1..MaxThreads
Callers == 1..NumCallers

VARIABLES
    \* RealtimeClient fields
    ws, running, loop, thread, assistant_transcript,
    \* runtime: threads, event loops, connections
    tpc, loopClosed, conn, tasks, inbound, outbound, exec, startPc,
    \* application state (ConversationState)
    state,
    \* history of the run, read only by the properties
    hist,
    \* BufferedAudioOutput with its playback thread
    out,
    \* OracleTokenManager (with the clock), and the threads using it
    tm, api,
    \* text mode: SessionRepository._sessions, the graph run on the event
    \* loop, the suspended stream_text run, and the history of the turns
    sessions, graph, parked, thist,
    \* RealtimeVoiceHandler
    vh,
    \* the module global _token_manager and the threads in get_token_manager()
    registry

clientVars == <<ws, running, loop, thread, assistant_transcript>>
runVars == <<tpc, loopClosed, conn, tasks, inbound, outbound, exec, startPc>>
appVars == <<state>>
sessionVars == <<clientVars, runVars, appVars, hist>>
textVars == <<sessions, graph, parked, thist>>
modeVars == <<textVars, vh>>
libVars == <<out, tm, api, registry, modeVars>>
apiVars == <<tm, api, registry>>
vars == <<sessionVars, libVars>>


\* ---------------------------------------------------------------- messages
\* An inbound protocol event as the JSON object _handle_message receives.
\* A field the event does not carry holds its msg.get() default.
\* json: the frame received is a JSON text; seq: the place of the frame in
\* the stream when the remote endpoint counts its frames, else 0
Msg(type) ==
    [type |-> type, message |-> "Unknown error", audio |-> "", delta |-> <<>>,
     hasTranscript |-> FALSE, transcript |-> <<>>,
     call_id |-> "", name |-> "", arguments |-> "{}",
     json |-> TRUE, seq |-> 0]

\* a frame that is no JSON text, and an event of a type the client does not
\* know
Malformed == [Msg("") EXCEPT !.json = FALSE]
UnknownEvent == Msg("rate_limits.updated")

ErrorEvent == [Msg("error") EXCEPT !.message = "server_error"]
AudioDelta(b64) == [Msg("response.audio.delta") EXCEPT !.audio = b64]
TranscriptDelta(text) == [Msg("response.audio_transcript.delta") EXCEPT !.delta = text]
TranscriptDone == Msg("response.audio_transcript.done")
TranscriptDoneWith(text) ==
    [Msg("response.audio_transcript.done") EXCEPT !.hasTranscript = TRUE, !.transcript = text]
UserTranscript(text) ==
    [Msg("conversation.item.input_audio_transcription.completed")
        EXCEPT !.hasTranscript = TRUE, !.transcript = text]
FunctionCall(id, name, arguments) ==
    [Msg("response.function_call_arguments.done")
        EXCEPT !.call_id = id, !.name = name, !.arguments = arguments]
ResponseCreated == Msg("response.created")
ResponseDone == Msg("response.done")
SessionUpdated == Msg("session.updated")

\* base64.b64decode on the audio payloads the remote sends here
B64Decode(b64) ==
    CASE b64 = "QUI=" -> <<"A", "B">>
      [] b64 = "Qw==" -> <<"C">>
      [] OTHER -> <<>>

\* base64.b64decode raises binascii.Error (incorrect padding) on b64
B64Raises(b64) == b64 \notin {"", "QUI=", "Qw=="}

\* base64.b64encode(...).decode("utf-8") on the microphone blocks sent here
B64Encode(bytes) ==
    CASE bytes = <<"A", "B">> -> "QUI="
      [] bytes = <<"C">> -> "Qw=="
      [] OTHER -> ""

\* str.strip(): leading and trailing blanks removed
RECURSIVE LStrip(_)
LStrip(text) ==
    IF text # <<>> /\ Head(text) = " " THEN LStrip(Tail(text)) ELSE text
RECURSIVE RStrip(_)
RStrip(text) ==
    IF text # <<>> /\ text[Len(text)] = " "
    THEN RStrip(SubSeq(text, 1, Len(text) - 1)) ELSE text
Strip(text) == RStrip(LStrip(text))

\* ------------------------------------------------------------------- tools
\* json.loads on the argument strings of the function calls sent here.
\* A parsed object is the set of its <<key, value>> pairs.
ParseJson(arguments) ==
    CASE arguments = "{}" ->
            [ok |-> TRUE, isObject |-> TRUE, obj |-> {}]
      [] arguments = "{\"text\": \"hi\"}" ->
            [ok |-> TRUE, isObject |-> TRUE, obj |-> {<<"text", "hi">>}]
      [] arguments = "[1]" ->
            [ok |-> TRUE, isObject |-> FALSE, obj |-> {}]
      [] OTHER ->
            [ok |-> FALSE, isObject |-> FALSE, obj |-> {}]

\* args = json.loads(arguments) if arguments else {}
ParseArguments(arguments) ==
    IF arguments = "" THEN [ok |-> TRUE, isObject |-> TRUE, obj |-> {}]
    ELSE ParseJson(arguments)

\* config.tools: the tools the session is constructed with.
\*   echo(text: str) -> str returns its input; fail() raises.
ConfigTools == <<"echo", "fail">>

\* an __init__ that registers the handler of the first tool only
RegisterFirstTool(tools) == IF tools = <<>> THEN {} ELSE {tools[1]}
\* _tool_handlers, filled by __init__ from config.tools
RegisterTools(tools) == {tools[i] : i \in 1..Len(tools)}
tool_handlers == RegisterTools(ConfigTools)

\* handler(**args): the value returned, or raised = TRUE
Handler(name, obj) ==
    CASE name = "echo" ->
            IF {p[1] : p \in obj} = {"text"}
            THEN [raised |-> FALSE, value |-> (CHOOSE p \in obj : p[1] = "text")[2]]
            ELSE [raised |-> TRUE, value |-> "echo() got unexpected arguments"]
      [] OTHER -> [raised |-> TRUE, value |-> "failure"]

\* handler(**args) where args is whatever json.loads returned: ** on a value
\* that is no mapping raises TypeError before the handler runs
CallHandler(name, parsed) ==
    IF parsed.isObject THEN Handler(name, parsed.obj)
    ELSE [raised |-> TRUE, value |-> "argument after ** must be a mapping"]

\* ToolResult with the inner try/except around handler(**args) left out: a
\* raising handler lands in the outer except and no result string exists
ToolResultNoInnerTry(name, arguments) ==
    LET parsed == ParseArguments(arguments)
        known == name \in tool_handlers
        r == CallHandler(name, parsed)
    IN  IF ~parsed.ok \/ (known /\ r.raised) THEN
            [hasResult |-> FALSE, result |-> "", invoked |-> known /\ parsed.isObject,
             obj |-> parsed.obj]
        ELSE IF ~known THEN
            [hasResult |-> TRUE, result |-> "Error: Unknown function '" \o name \o "'",
             invoked |-> FALSE, obj |-> {}]
        ELSE
            [hasResult |-> TRUE, result |-> r.value,
             invoked |-> TRUE, obj |-> parsed.obj]

\* The local result of _execute_function before anything is sent: the parsed
\* arguments, whether the handler was invoked, and the result string.
\* hasResult = FALSE: json.loads raised and control left the outer try.
ToolResult(name, arguments) ==
    LET parsed == ParseArguments(arguments)
        known == name \in tool_handlers
        r == CallHandler(name, parsed)
    IN  IF ~parsed.ok THEN
            [hasResult |-> FALSE, result |-> "", invoked |-> FALSE, obj |-> {}]
        ELSE IF ~known THEN
            [hasResult |-> TRUE, result |-> "Error: Unknown function '" \o name \o "'",
             invoked |-> FALSE, obj |-> {}]
        ELSE IF r.raised THEN
            [hasResult |-> TRUE, result |-> "Error executing " \o name \o ": " \o r.value,
             invoked |-> parsed.isObject, obj |-> parsed.obj]
        ELSE
            [hasResult |-> TRUE, result |-> r.value,
             invoked |-> TRUE, obj |-> parsed.obj]

\* ---------------------------------------------------------------- outbound
\* Messages written to the connection, as the JSON objects given to ws.send
Out(type) ==
    [type |-> type, call_id |-> "", output |-> "", audio |-> "", tools |-> <<>>]
\* _configure_session: the names in session["tools"], one entry for every
\* tool of config.tools; the key is left out when config.tools is empty
SessionTools(tools) == [i \in 1..Len(tools) |-> tools[i]]
OutSessionUpdate == [Out("session.update") EXCEPT !.tools = SessionTools(ConfigTools)]
\* OutFunctionResult with the call_id left out of the item
OutFunctionResultNoCallId(call_id, result) ==
    [Out("conversation.item.create") EXCEPT !.output = result]
OutFunctionResult(call_id, result) ==
    [Out("conversation.item.create") EXCEPT !.call_id = call_id, !.output = result]
OutResponseCreate == Out("response.create")
OutAudioAppend(bytes) ==
    [Out("input_audio_buffer.append") EXCEPT !.audio = B64Encode(bytes)]

\* --------------------------------------------------------------- callbacks
\* One invocation of a callback the client was constructed with
Call(cb) == [cb |-> cb, role |-> "", text |-> <<>>, err |-> ""]
OnAudio(bytes) == [Call("on_audio") EXCEPT !.text = bytes]
OnTranscript(role, text) == [Call("on_transcript") EXCEPT !.role = role, !.text = text]
OnTranscriptDone(role, text) ==
    [Call("on_transcript_done") EXCEPT !.role = role, !.text = text]
OnSpeechStarted == Call("on_speech_started")
OnSpeechStopped == Call("on_speech_stopped")
OnError(err) == [Call("on_error") EXCEPT !.err = err]

\* HandleCalls without the on_speech_stopped call of the transcript-done branch
HandleCallsNoSpeechStopped(msg, transcript) ==
    CASE msg.type = "error" ->
            <<OnError(msg.message)>>
      [] msg.type = "response.audio.delta" ->
            IF msg.audio # "" THEN <<OnAudio(B64Decode(msg.audio))>> ELSE <<>>
      [] msg.type = "response.audio_transcript.delta" ->
            IF msg.delta # <<>> THEN <<OnTranscript("assistant", msg.delta)>> ELSE <<>>
      [] msg.type = "response.audio_transcript.done" ->
            LET full_text == IF msg.hasTranscript THEN msg.transcript ELSE transcript
            IN  IF full_text # <<>> THEN <<OnTranscriptDone("assistant", full_text)>>
                ELSE <<>>
      [] msg.type = "conversation.item.input_audio_transcription.completed" ->
            IF msg.transcript # <<>>
            THEN <<OnTranscript("user", msg.transcript),
                   OnTranscriptDone("user", msg.transcript)>>
            ELSE <<>>
      [] msg.type = "response.created" ->
            <<OnSpeechStarted>>
      [] OTHER -> <<>>

\* _handle_message: the callbacks it invokes, in order, for message msg when
\* the accumulator holds transcript (function calls go to _execute_function)
HandleCalls(msg, transcript) ==
    CASE msg.type = "error" ->
            <<OnError(msg.message)>>
      [] msg.type = "response.audio.delta" ->
            IF msg.audio # "" THEN <<OnAudio(B64Decode(msg.audio))>> ELSE <<>>
      [] msg.type = "response.audio_transcript.delta" ->
            IF msg.delta # <<>> THEN <<OnTranscript("assistant", msg.delta)>> ELSE <<>>
      [] msg.type = "response.audio_transcript.done" ->
            LET full_text == IF msg.hasTranscript THEN msg.transcript ELSE transcript
            IN  (IF full_text # <<>> THEN <<OnTranscriptDone("assistant", full_text)>>
                 ELSE <<>>) \o <<OnSpeechStopped>>
      [] msg.type = "conversation.item.input_audio_transcription.completed" ->
            IF msg.transcript # <<>>
            THEN <<OnTranscript("user", msg.transcript),
                   OnTranscriptDone("user", msg.transcript)>>
            ELSE <<>>
      [] msg.type = "response.created" ->
            <<OnSpeechStarted>>
      [] OTHER -> <<>>

\* _handle_message: self._assistant_transcript after message msg
NewTranscript(msg, transcript) ==
    CASE msg.type = "response.audio_transcript.delta" -> transcript \o msg.delta
      [] msg.type = "response.audio_transcript.done" -> <<>>
      [] OTHER -> transcript

\* ConversationState.add_message
add_message(st, role, text) ==
    IF Strip(text) # <<>>
    THEN [st EXCEPT !.messages = Append(@, [role |-> role, text |-> Strip(text)])]
    ELSE st

\* The application's callbacks on its ConversationState st:
\* on_audio_chunk, on_transcript_delta, on_transcript_complete,
\* on_ai_speaking, on_ai_stopped, on_error
ApplyCallback(st, c) ==
    CASE c.cb = "on_audio" -> st
      [] c.cb = "on_transcript" ->
            IF c.role = "assistant"
            THEN [st EXCEPT !.current_text = @ \o c.text] ELSE st
      [] c.cb = "on_transcript_done" ->
            LET added == add_message(st, c.role, c.text)
            IN  IF c.role = "assistant"
                THEN [added EXCEPT !.current_text = <<>>] ELSE added
      [] c.cb = "on_speech_started" ->
            [st EXCEPT !.is_ai_speaking = TRUE, !.current_text = <<>>]
      [] c.cb = "on_speech_stopped" ->
            [st EXCEPT !.is_ai_speaking = FALSE]
      [] c.cb = "on_error" ->
            [st EXCEPT !.error = c.err, !.is_active = FALSE]
      [] OTHER -> st

RECURSIVE ApplyCallbacks(_, _)
ApplyCallbacks(st, calls) ==
    IF calls = <<>> THEN st
    ELSE ApplyCallbacks(ApplyCallback(st, Head(calls)), Tail(calls))

\* ----------------------------------------------------------------- history
\* Number of invocations of callback cb in calls
Count(calls, cb) == Cardinality({i \in 1..Len(calls) : calls[i].cb = cb})

\* The assistant text given to the completed-transcript callback in calls
DoneText(calls, before) ==
    LET hits == {i \in 1..Len(calls) :
                    calls[i].cb = "on_transcript_done" /\ calls[i].role = "assistant"}
    IN  IF hits = {} THEN before ELSE calls[CHOOSE i \in hits : \A j \in hits : j <= i].text

\* Observer of one assistant turn received by an idle session:
\* response.created, audio deltas, n >= 1 transcript deltas, transcript done,
\* response.done.  Any other order switches the observer off.
TurnIdle ==
    [phase |-> "idle", n |-> 0, concat |-> <<>>, started |-> 0, stopped |-> 0,
     done |-> 0, text |-> <<>>, hasField |-> FALSE, field |-> <<>>]

TurnPhase(turn, msg) ==
    LET quiet == turn.phase \in {"idle", "complete"}
    IN  CASE msg.type = "response.created" ->
                IF quiet THEN "created" ELSE "off"
          [] msg.type = "response.audio.delta" ->
                IF turn.phase \in {"created", "deltas"} THEN turn.phase ELSE "off"
          [] msg.type = "response.audio_transcript.delta" ->
                IF turn.phase \in {"created", "deltas"} THEN "deltas" ELSE "off"
          [] msg.type = "response.audio_transcript.done" ->
                IF turn.phase = "deltas" THEN "transcript_done" ELSE "off"
          [] msg.type = "response.done" ->
                IF turn.phase = "transcript_done" THEN "complete" ELSE "off"
          [] msg.type \in {"session.updated",
                           "conversation.item.input_audio_transcription.completed"} ->
                IF quiet THEN turn.phase ELSE "off"
          [] OTHER -> "off"

ObserveTurn(turn, msg, calls) ==
    LET phase == TurnPhase(turn, msg)
        base == IF msg.type = "response.created" THEN [TurnIdle EXCEPT !.phase = phase]
                ELSE [turn EXCEPT !.phase = phase]
    IN  IF phase = "off" THEN [TurnIdle EXCEPT !.phase = "off"]
        ELSE IF phase = turn.phase /\ phase \in {"idle", "complete"} THEN turn
        ELSE [base EXCEPT
                !.n = IF msg.type = "response.audio_transcript.delta" THEN @ + 1 ELSE @,
                !.concat = IF msg.type = "response.audio_transcript.delta"
                           THEN @ \o msg.delta ELSE @,
                !.hasField = IF msg.type = "response.audio_transcript.done"
                             THEN msg.hasTranscript ELSE @,
                !.field = IF msg.type = "response.audio_transcript.done"
                          THEN msg.transcript ELSE @,
                !.started = @ + Count(calls, "on_speech_started"),
                !.stopped = @ + Count(calls, "on_speech_stopped"),
                !.done = @ + Count(calls, "on_transcript_done"),
                !.text = DoneText(calls, @)]

HistInit(budget) ==
    [lastSeq |-> 0, outOfOrder |-> FALSE,
     stopReturned |-> FALSE, lateCallback |-> FALSE,
     stops |-> 0, stopRaised |-> FALSE,
     audioCalls |-> 0, audioWhileStopped |-> FALSE, sendRaised |-> FALSE,
     msgsLeft |-> budget, fatal |-> FALSE,
     toolCases |-> {}, turn |-> TurnIdle]

\* hist after the client invoked the callbacks calls
Invoked(h, calls) ==
    [h EXCEPT !.lateCallback = @ \/ (h.stopReturned /\ calls # <<>>)]

\* ------------------------------------------- speaker: BufferedAudioOutput
\* The bytes given to add_audio are numbered 1, 2, ... in append order.
\* self.buffer holds the bytes first..appended; a run <<a, b>> of written
\* stands for the bytes a..b handed to stream.write in one or more blocks.
\* The output device opens and takes every block it is given.
LowWater == 4096
MaxBlock == 8192

\* lengths of the audio chunks the callback on_audio_chunk appends
ChunkSizes == {1000, 4096, 9000}

\* BufferedAudioOutput.__init__; ppc: position of the playback thread,
\* spc: position of the caller of stop()
OutInit ==
    [appended |-> 0, first |-> 1, stop |-> FALSE, is_playing |-> FALSE,
     ppc |-> "none", chunk |-> <<>>, written |-> <<>>,
     spc |-> "idle", appends |-> 0, stops |-> 0, stopReturned |-> FALSE,
     lateWrite |-> FALSE]

\* len(self.buffer)
BufferLen(o) == o.appended - o.first + 1

\* the sink after the block run was written behind the runs in written
Played(written, run) ==
    IF written # <<>> /\ written[Len(written)][2] + 1 = run[1]
    THEN [written EXCEPT ![Len(written)] = <<@[1], run[2]>>]
    ELSE Append(written, run)

\* a playback loop that dequeues the whole buffer
ChunkSizeAll(o) == BufferLen(o)
\* _play_loop under buffer_lock: chunk_size = min(len(self.buffer), 8192)
ChunkSize(o) == IF BufferLen(o) < MaxBlock THEN BufferLen(o) ELSE MaxBlock

\* add_audio(audio_bytes) with len(audio_bytes) = n
add_audio(n) ==
    /\ out.appends < MaxAppends
    /\ out' = [out EXCEPT !.appended = @ + n, !.appends = @ + 1]
    /\ UNCHANGED <<sessionVars, apiVars, modeVars>>

\* BufferedAudioOutput.start()
OutputStart ==
    /\ out.ppc = "none"
    /\ out.spc = "idle" /\ ~out.stopReturned
    /\ out' = [out EXCEPT !.stop = FALSE, !.ppc = "test"]
    /\ UNCHANGED <<sessionVars, apiVars, modeVars>>

\* _play_loop: while not self._stop
PlayTest ==
    /\ out.ppc = "test"
    /\ out' = [out EXCEPT !.ppc = IF out.stop THEN "closing" ELSE "take"]
    /\ UNCHANGED <<sessionVars, apiVars, modeVars>>

\* a playback loop that copies the block and leaves it in the buffer
TakenKept(o) == [o EXCEPT !.chunk = <<o.first, o.first + ChunkSize(o) - 1>>]
\* _play_loop: chunk = bytes(self.buffer[:chunk_size]);
\* del self.buffer[:chunk_size]
Taken(o) ==
    [o EXCEPT !.chunk = <<o.first, o.first + ChunkSize(o) - 1>>,
              !.first = @ + ChunkSize(o)]

\* _play_loop: with self.buffer_lock: take a block, or nothing below the
\* low-water mark (then is_playing = False and sleep)
PlayTake ==
    /\ out.ppc = "take"
    /\ IF BufferLen(out) >= LowWater
       THEN out' = [Taken(out) EXCEPT !.ppc = "write"]
       ELSE out' = [out EXCEPT !.chunk = <<>>, !.is_playing = FALSE, !.ppc = "test"]
    /\ UNCHANGED <<sessionVars, apiVars, modeVars>>

\* _play_loop: self.stream.write(audio) returns
PlayWrite ==
    /\ out.ppc = "write"
    /\ out' = [out EXCEPT !.written = Played(@, out.chunk),
                          !.is_playing = TRUE,
                          !.lateWrite = @ \/ out.stopReturned,
                          !.ppc = "test"]
    /\ UNCHANGED <<sessionVars, apiVars, modeVars>>

\* _play_loop: finally: stream.stop(), stream.close()
PlayClose ==
    /\ out.ppc = "closing"
    /\ out' = [out EXCEPT !.ppc = "done"]
    /\ UNCHANGED <<sessionVars, apiVars, modeVars>>

\* a clear() that leaves the buffer as it is
ClearedNot(o) == o
\* with self.buffer_lock: self.buffer.clear()
Cleared(o) == [o EXCEPT !.first = o.appended + 1]

\* BufferedAudioOutput.stop(): self._stop = True, then join(timeout=1)
OutputStop ==
    /\ out.spc = "idle" /\ out.stops < MaxOutStops
    /\ out' = [out EXCEPT !.stop = TRUE, !.spc = "joining", !.stops = @ + 1]
    /\ UNCHANGED <<sessionVars, apiVars, modeVars>>

\* BufferedAudioOutput.stop(): the join returns because there is no thread,
\* the thread has ended, or the timeout passed while the thread is blocked
\* in stream.write; then self.buffer.clear() and stop() returns
OutputStopReturn ==
    /\ out.spc = "joining"
    /\ out.ppc \in {"none", "done", "write"}
    /\ out' = [Cleared(out) EXCEPT !.spc = "idle", !.stopReturned = TRUE]
    /\ UNCHANGED <<sessionVars, apiVars, modeVars>>

\* --------------------------------------------- OAuth: OracleTokenManager
\* Times are seconds since the manager was constructed.  The k-th fetch
\* started returns the token with id k; id 0 is "no token".
EXPIRATION_BUFFER == 300

\* self._token_info is None
NoToken == [id |-> 0, expires_at |-> 0]

\* expires_in of the OAuth responses; 0: the response carries none and the
\* token is no JWT with an exp claim
ExpiresIn == {0, 60, 3600}

\* seconds that pass when the clock is advanced: a token valid for an hour
\* then expires in exactly EXPIRATION_BUFFER seconds
Elapsed == {3300}

\* An access token as _parse_jwt_expiration sees it: parts: the number of
\* pieces token.split('.') gives; payload: what the second piece is:
\* "object" a base64url JSON object, "array" base64url JSON that is no object,
\* "text" base64url of something that is no JSON, "binary" no base64url;
\* exp: the exp member of the object: a timestamp, 0 for none (or zero),
\* -1 for a member that is no number
Jwt(parts, payload, exp) == [parts |-> parts, payload |-> payload, exp |-> exp]
OpaqueToken == Jwt(1, "binary", 0)

\* the body of a 200 answer of the OAuth endpoint; expires_in 0: it carries
\* no expires_in (or zero)
OAuthResponse(expires_in, token) == [expires_in |-> expires_in, token |-> token]

\* datetime.now() + timedelta(hours=1)
DEFAULT_LIFETIME == 3600

\* _parse_jwt_expiration that never finds an exp claim
parse_jwt_expiration_default(token, now) == now + DEFAULT_LIFETIME
\* _parse_jwt_expiration: the exp claim of a three-part token whose payload
\* decodes to a JSON object with a non-zero numeric exp; one hour from now
\* when there are not three parts, when decoding, json.loads, .get or
\* datetime.fromtimestamp raises, and when exp is missing or zero
parse_jwt_expiration(token, now) ==
    IF token.parts # 3 THEN now + DEFAULT_LIFETIME
    ELSE IF token.payload # "object" THEN now + DEFAULT_LIFETIME
    ELSE IF token.exp = 0 THEN now + DEFAULT_LIFETIME
    ELSE IF token.exp < 0 THEN now + DEFAULT_LIFETIME
    ELSE token.exp

\* _fetch_new_token: expires_at = now + expires_in when the response carries
\* expires_in, else what _parse_jwt_expiration finds in the access token
TokenExpiry(now, response) ==
    IF response.expires_in # 0 THEN now + response.expires_in
    ELSE parse_jwt_expiration(response.token, now)

\* _fetch_new_token on a response whose access token is no JWT
ExpiresAt(now, expires_in) == TokenExpiry(now, OAuthResponse(expires_in, OpaqueToken))

\* no response recorded; the response and time of a recorded fetch
NoResponse == [at |-> 0, expires_in |-> 0, token |-> OpaqueToken, id |-> 0]
Recorded(now, response, id) ==
    [at |-> now, expires_in |-> response.expires_in, token |-> response.token, id |-> id]

\* OracleTokenManager.__init__; response: the OAuth response of the last fetch
\* of the expiry specification; floor .. contended are the history of the run
TmInit ==
    [token_info |-> NoToken, lock |-> 0, now |-> 0, response |-> NoResponse,
     fetches |-> 0, floor |-> 0, invalidations |-> 0, ticks |-> 0, ops |-> 0,
     failed |-> FALSE, short |-> FALSE, raced |-> FALSE, contended |-> FALSE]


\* _is_token_expired without the test of the expiry time
IsTokenExpiredAlways(m) == TRUE
\* _is_token_expired taking a token as fresh at the instant the buffer begins
IsTokenExpiredStrict(m) ==
    \/ m.token_info = NoToken
    \/ m.now > m.token_info.expires_at - EXPIRATION_BUFFER
\* _is_token_expired
IsTokenExpired(m) ==
    \/ m.token_info = NoToken
    \/ m.now >= m.token_info.expires_at - EXPIRATION_BUFFER

\* "with self._lock" entered although the lock is held
LockIgnored(m) == TRUE
\* "with self._lock" can be entered
LockFree(m) == m.lock = 0

\* invalidate_token that leaves the cached token in place
InvalidatedKeepsToken(m) ==
    [m EXCEPT !.floor = m.fetches, !.invalidations = @ + 1]
\* invalidate_token under the lock: self._token_info = None.  floor: the
\* tokens with an id up to it were fetched before this invalidation
Invalidated(m) ==
    [m EXCEPT !.token_info = NoToken, !.floor = m.fetches, !.invalidations = @ + 1]

\* ------------------------------ the global instance: get_token_manager
\* instance: the module global _token_manager, 0 for None, else the number of
\* the OracleTokenManager it holds; made: instances constructed; client: the
\* _token_manager field of the OracleHospitalityClient each thread uses; pc,
\* via, got: position, kind and last return value of the call of each thread;
\* calls: calls begun
RegistryInit ==
    [instance |-> 0, made |-> 0,
     client |-> [c \in Callers |-> 0],
     pc |-> [c \in Callers |-> "idle"], via |-> [c \in Callers |-> "none"],
     got |-> [c \in Callers |-> 0],
     calls |-> 0]

\* thread c calls get_token_manager(), directly (get_valid_token) or from
\* _get_token_manager of a client that holds no manager yet:
\* if _token_manager is None
RegistryCheck(c, via) ==
    /\ registry.pc[c] = "idle"
    /\ registry.calls < MaxRegistryCalls
    /\ via = "client" => registry.client[c] = 0
    /\ registry' = [registry EXCEPT
                      !.pc[c] = IF registry.instance = 0 THEN "constructing"
                                ELSE "returning",
                      !.via[c] = via,
                      !.calls = @ + 1]
    /\ UNCHANGED <<sessionVars, out, tm, api, modeVars>>

\* get_token_manager: _token_manager = OracleTokenManager()
RegistryConstruct(c) ==
    /\ registry.pc[c] = "constructing"
    /\ registry' = [registry EXCEPT !.instance = registry.made + 1,
                                    !.made = @ + 1,
                                    !.pc[c] = "returning"]
    /\ UNCHANGED <<sessionVars, out, tm, api, modeVars>>

\* get_token_manager: return _token_manager; _get_token_manager keeps the
\* manager returned in the client
RegistryReturn(c) ==
    /\ registry.pc[c] = "returning"
    /\ registry' = [registry EXCEPT
                      !.got[c] = registry.instance,
                      !.client[c] = IF registry.via[c] = "client"
                                    THEN registry.instance ELSE @,
                      !.pc[c] = "idle"]
    /\ UNCHANGED <<sessionVars, out, tm, api, modeVars>>

\* ------------------------------------ HTTP: BaseAPIClient._request
\* What the server does with a request: fault "timeout" (no answer in time),
\* "refused" (no connection), or an answer with a status and a body
ServerReplies ==
    [fault : {"timeout", "refused"}, status : {0}, body : {"empty"}]
    \cup [fault : {"none"},
          status : {200, 204, 400, 401, 403, 404, 409, 500, 501, 503},
          body : {"json", "text", "empty"}]

\* _create_session: Retry(status_forcelist=...)
StatusForcelist == {429, 500, 502, 503, 504}

\* self.session.request(...): the retry adapter repeats the request on a
\* status of the forcelist and raises RetryError when the server keeps
\* answering with it; otherwise the response, or the transport's exception
SessionRequest(server) ==
    CASE server.fault = "timeout" -> [raised |-> "Timeout", status |-> 0, body |-> "empty"]
      [] server.fault = "refused" ->
            [raised |-> "ConnectionError", status |-> 0, body |-> "empty"]
      [] server.status \in StatusForcelist ->
            [raised |-> "RetryError", status |-> 0, body |-> "empty"]
      [] OTHER -> [raised |-> "", status |-> server.status, body |-> server.body]

\* _request: "json" for the parsed body returned, else the name of the
\* exception that leaves _request
RequestOutcome(server) ==
    LET r == SessionRequest(server)
    IN  CASE r.raised = "Timeout" -> "APITimeoutError"
          [] r.raised = "ConnectionError" -> "APIConnectionError"
          [] r.raised \notin {"", "Timeout", "ConnectionError"} -> r.raised
          [] r.raised = "" /\ r.status \in {401, 403} -> "APIAuthenticationError"
          [] r.raised = "" /\ r.status = 400 -> "APIValidationError"
          [] r.raised = "" /\ r.status = 404 -> "APINotFoundError"
          [] r.raised = "" /\ r.status >= 500 -> "APIServerError"
          [] r.raised = "" /\ r.status >= 400 /\ r.status < 500
                /\ r.status \notin {400, 401, 403, 404} -> "HTTPError"
          [] r.raised = "" /\ r.status < 400 /\ r.body = "json" -> "json"
          [] OTHER -> "JSONDecodeError"

\* the parsed body and the typed errors of chatbot/api/exceptions.py
TypedOutcomes ==
    {"json", "APIAuthenticationError", "APIValidationError", "APINotFoundError",
     "APIServerError", "APITimeoutError", "APIConnectionError"}

\* _request_with_retry repeating the request after every authentication error
RetriesForEver(attempt, outcome) == outcome = "APIAuthenticationError"
\* _request_with_retry: except APIAuthenticationError around the first
\* _request only
Retries(attempt, outcome) == attempt = 1 /\ outcome = "APIAuthenticationError"

\* --------------------------------------- threads using the token manager
\* A thread outside every call.  kind: how its last call ended ("token",
\* "invalidated", an outcome of _request, or "Exception" for the exception of
\* _fetch_new_token); id: the token returned or sent last; floor: tm.floor
\* when get_token entered the lock; sends, invals, first, newFloor: the
\* requests sent, the invalidations made, the outcome of the first request
\* and tm.floor after the invalidation, of the last _request_with_retry
ApiIdle ==
    [pc |-> "idle", op |-> "none", attempt |-> 0, kind |-> "none", id |-> 0,
     floor |-> 0, sends |-> 0, invals |-> 0, first |-> "none", newFloor |-> 0]

ApiInit == [c \in Callers |-> ApiIdle]

\* thread c has the token id in hand: get_token returns it, or get_headers
\* puts it into the request about to be sent
WithToken(a, id) ==
    IF a.op = "request" THEN [a EXCEPT !.pc = "send", !.id = id]
    ELSE [a EXCEPT !.pc = "idle", !.kind = "token", !.id = id]

\* thread c calls get_token()
GetToken(c) ==
    /\ api[c].pc = "idle"
    /\ tm.ops < MaxOps
    /\ api' = [api EXCEPT ![c] = [ApiIdle EXCEPT !.pc = "get_token", !.op = "get_token"]]
    /\ tm' = [tm EXCEPT !.ops = @ + 1]
    /\ UNCHANGED <<sessionVars, out, registry, modeVars>>

\* get_token: with self._lock: the cached token is returned, or
\* _fetch_new_token begins
TokEnter(c) ==
    /\ api[c].pc = "get_token"
    /\ LockFree(tm)
    /\ IF IsTokenExpired(tm)
       THEN /\ tm.fetches < MaxFetches
            /\ tm' = [tm EXCEPT !.lock = c, !.fetches = @ + 1,
                                !.contended = @ \/ \E d \in Callers \ {c} :
                                                      api[d].pc = "get_token"]
            /\ api' = [api EXCEPT ![c] = [@ EXCEPT !.pc = "fetching", !.floor = tm.floor]]
       ELSE /\ api' = [api EXCEPT ![c] =
                        WithToken([@ EXCEPT !.floor = tm.floor], tm.token_info.id)]
            /\ UNCHANGED tm
    /\ UNCHANGED <<sessionVars, out, registry, modeVars>>

\* a get_token that drops the cached token when the fetch raises
FetchFailedClears(m) == [m EXCEPT !.token_info = NoToken, !.lock = 0, !.failed = TRUE]
\* get_token: _fetch_new_token raises: the assignment to self._token_info
\* does not happen and "with self._lock" releases the lock
FetchFailed(m) == [m EXCEPT !.lock = 0, !.failed = TRUE]

\* get_token: _fetch_new_token returns a token, which is stored and
\* returned, or raises; the lock is released
TokFetched(c) ==
    /\ api[c].pc = "fetching"
    /\ \/ \E e \in ExpiresIn :
            /\ tm' = [tm EXCEPT
                        !.token_info = [id |-> tm.fetches,
                                        expires_at |-> ExpiresAt(tm.now, e)],
                        !.lock = 0,
                        !.short = @ \/ ExpiresAt(tm.now, e) - EXPIRATION_BUFFER <= tm.now]
            /\ api' = [api EXCEPT ![c] = WithToken(@, tm.fetches)]
       \/ /\ tm' = FetchFailed(tm)
          /\ api' = [api EXCEPT ![c] = [@ EXCEPT !.pc = "idle", !.kind = "Exception"]]
    /\ UNCHANGED <<sessionVars, out, registry, modeVars>>

\* get_token: _fetch_new_token receives the 200 answer response of the OAuth
\* endpoint; the token is stored with the expiry found and returned, and the
\* lock is released
TokFetchedResponse(c, response) ==
    /\ api[c].pc = "fetching"
    /\ tm' = [tm EXCEPT
                !.token_info = [id |-> tm.fetches,
                                expires_at |-> TokenExpiry(tm.now, response)],
                !.response = Recorded(tm.now, response, tm.fetches),
                !.lock = 0,
                !.short = @ \/ TokenExpiry(tm.now, response) - EXPIRATION_BUFFER <= tm.now]
    /\ api' = [api EXCEPT ![c] = WithToken(@, tm.fetches)]
    /\ UNCHANGED <<sessionVars, out, registry, modeVars>>

\* thread c calls invalidate_token()
InvalidateToken(c) ==
    /\ api[c].pc = "idle"
    /\ tm.ops < MaxOps
    /\ LockFree(tm)
    /\ tm' = [Invalidated(tm) EXCEPT
                !.ops = @ + 1,
                !.raced = @ \/ \E d \in Callers : api[d].pc = "fetching"]
    /\ api' = [api EXCEPT ![c] = [ApiIdle EXCEPT !.op = "invalidate_token",
                                                 !.kind = "invalidated"]]
    /\ UNCHANGED <<sessionVars, out, registry, modeVars>>

\* thread c calls get/post/put/delete of OracleHospitalityClient:
\* _request_with_retry, _request, get_headers, get_token
Request(c) ==
    /\ api[c].pc = "idle"
    /\ tm.ops < MaxOps
    /\ api' = [api EXCEPT ![c] = [ApiIdle EXCEPT !.pc = "get_token", !.op = "request",
                                                 !.attempt = 1]]
    /\ tm' = [tm EXCEPT !.ops = @ + 1]
    /\ UNCHANGED <<sessionVars, out, registry, modeVars>>

\* _request: the request goes out and its outcome is known;
\* _request_with_retry catches the first authentication error
ReqSend(c, server) ==
    /\ api[c].pc = "send"
    /\ LET outcome == RequestOutcome(server)
           sent == [api[c] EXCEPT !.sends = @ + 1,
                                  !.first = IF api[c].attempt = 1 THEN outcome ELSE @]
       IN  api' = [api EXCEPT ![c] =
                     IF Retries(api[c].attempt, outcome)
                     THEN [sent EXCEPT !.pc = "invalidate"]
                     ELSE [sent EXCEPT !.pc = "idle", !.kind = outcome]]
    /\ UNCHANGED <<sessionVars, out, tm, registry, modeVars>>

\* _request_with_retry: token_manager.invalidate_token(), then the request
\* is made again
ReqInvalidate(c) ==
    /\ api[c].pc = "invalidate"
    /\ LockFree(tm)
    /\ tm' = [Invalidated(tm) EXCEPT
                !.raced = @ \/ \E d \in Callers : api[d].pc = "fetching"]
    /\ api' = [api EXCEPT ![c] = [@ EXCEPT !.pc = "get_token", !.invals = @ + 1,
                                           !.attempt = @ + 1,
                                           !.newFloor = tm.fetches]]
    /\ UNCHANGED <<sessionVars, out, registry, modeVars>>

\* time passes
Tick ==
    /\ tm.ticks < MaxTicks
    /\ \E d \in Elapsed : tm' = [tm EXCEPT !.now = @ + d, !.ticks = @ + 1]
    /\ UNCHANGED <<sessionVars, out, api, registry, modeVars>>

\* ------------------------------- text mode: SessionRepository, ChatRepository
\* The chat routes are coroutines of one event loop and call the repository
\* directly: a send_text or send_audio turn runs from its start to its end
\* without another request in between, and a stream_text turn can be left
\* suspended at a yield while other requests run.  Session ids are 1 ..
\* NumSessions, 0 is "no session id given"; a message is known by the number
\* n it was created with.
SessionIds == 1..NumSessions

ChatMsg(role, n, content, tool_calls) ==
    [role |-> role, n |-> n, content |-> content, tool_calls |-> tool_calls]

\* Session(session_id=...), and the place of a session that does not exist
NewSession == [exists |-> TRUE, messages |-> <<>>]
NoSession == [exists |-> FALSE, messages |-> <<>>]

\* langgraph add_messages: a message whose id is already in the list takes
\* the place of that message, any other message is appended
RECURSIVE add_messages(_, _)
add_messages(left, right) ==
    IF right = <<>> THEN left
    ELSE LET msg == Head(right)
             same == {i \in 1..Len(left) : left[i].n = msg.n}
         IN  add_messages(IF same = {} THEN Append(left, msg)
                          ELSE [i \in 1..Len(left) |-> IF i \in same THEN msg ELSE left[i]],
                          Tail(right))

\* the id get_or_create_session works on: the id given, or a new uuid
SessionIdFor(ss, session_id) ==
    IF session_id # 0 THEN session_id
    ELSE CHOOSE i \in SessionIds : ~ss[i].exists

\* get_or_create_session that creates a session whenever it is called
get_or_create_always_new(ss, session_id) ==
    [ss EXCEPT ![SessionIdFor(ss, session_id)] = NewSession]
\* SessionRepository.get_or_create_session / create_session
get_or_create_session(ss, session_id) ==
    IF session_id # 0 /\ ss[session_id].exists THEN ss
    ELSE [ss EXCEPT ![SessionIdFor(ss, session_id)] = NewSession]

\* SessionRepository.add_message
repo_add_message(ss, session_id, message) ==
    IF ss[session_id].exists
    THEN [ss EXCEPT ![session_id].messages = Append(@, message)]
    ELSE ss

\* SessionRepository.clear_session / delete_session
clear_session(ss, session_id) ==
    IF ss[session_id].exists THEN [ss EXCEPT ![session_id].messages = <<>>] ELSE ss
delete_session(ss, session_id) == [ss EXCEPT ![session_id] = NoSession]

\* ------------------------------------------- text mode: the unified graph
\* no graph run on the event loop; the state of a run: the UnifiedChatState
\* fields, the node to run next (pc), the turn it serves (kind, sid), the
\* stream's collected_response, and trace: the nodes run so far, each llm
\* entry with whether its message carried tool calls
GraphIdle ==
    [pc |-> "idle", kind |-> "none", sid |-> 0,
     input_type |-> "text", output_type |-> "text", audio_input |-> FALSE,
     messages |-> <<>>, transcription |-> FALSE, audio_output |-> FALSE,
     collected |-> FALSE, yielding |-> FALSE, rounds |-> 0, trace |-> <<>>]

Visit(node, tool_calls) == [node |-> node, tool_calls |-> tool_calls]

\* route_by_input_type that looks at input_type only
route_by_input_type_only(input_type, audio_input) ==
    IF input_type = "audio" THEN "stt" ELSE "prompt"
\* route_by_input_type
route_by_input_type(input_type, audio_input) ==
    IF input_type = "audio" /\ audio_input THEN "stt" ELSE "prompt"

\* should_use_tools: the last message carries tool calls
should_use_tools(messages) ==
    IF messages # <<>> /\ messages[Len(messages)].tool_calls THEN "tools" ELSE "output"

\* should_generate_audio
should_generate_audio(output_type) == IF output_type = "audio" THEN "tts" ELSE "end"

\* tts_node: the last AI message with content exists
HasResponseText(messages) ==
    \E i \in 1..Len(messages) : messages[i].role = "ai" /\ messages[i].content

\* the run a turn starts: graph.invoke(state) / graph.stream(state)
StartRun(kind, sid, input_type, output_type, audio_input, messages) ==
    [GraphIdle EXCEPT !.pc = route_by_input_type(input_type, audio_input),
                      !.kind = kind, !.sid = sid, !.input_type = input_type,
                      !.output_type = output_type, !.audio_input = audio_input,
                      !.messages = messages]

\* text-mode history: numbers given to messages, turns begun, clears and
\* deletes done
ThistInit == [made |-> 0, turns |-> 0, clears |-> 0]

TextInit ==
    /\ sessions = [i \in SessionIds |-> NoSession]
    /\ graph = GraphIdle
    /\ parked = GraphIdle
    /\ thist = ThistInit

\* a request may name a session, or none while an id is still free
CanServe(session_id) ==
    /\ graph.pc = "idle"
    /\ thist.turns + thist.clears < MaxChatOps
    /\ session_id = 0 => \E i \in SessionIds : ~sessions[i].exists

\* ChatRepository.send_text up to graph.invoke
SendText(session_id) ==
    /\ CanServe(session_id)
    /\ LET sid == SessionIdFor(sessions, session_id)
           human == ChatMsg("human", thist.made + 1, TRUE, FALSE)
           ss == repo_add_message(get_or_create_session(sessions, session_id), sid, human)
       IN  /\ sessions' = ss
           /\ graph' = StartRun("text", sid, "text", "text", FALSE, ss[sid].messages)
    /\ thist' = [thist EXCEPT !.made = @ + 1, !.turns = @ + 1]
    /\ UNCHANGED <<parked, vh>>
    /\ UNCHANGED <<sessionVars, out, apiVars>>

\* ChatRepository.send_audio up to graph.invoke
SendVoice(session_id, audio_input, generate_audio) ==
    /\ CanServe(session_id)
    /\ LET sid == SessionIdFor(sessions, session_id)
           ss == get_or_create_session(sessions, session_id)
       IN  /\ sessions' = ss
           /\ graph' = StartRun("audio", sid, "audio",
                                IF generate_audio THEN "audio" ELSE "text",
                                audio_input, ss[sid].messages)
    /\ thist' = [thist EXCEPT !.turns = @ + 1]
    /\ UNCHANGED <<parked, vh>>
    /\ UNCHANGED <<sessionVars, out, apiVars>>

\* ChatRepository.stream_text up to graph.stream
StreamText(session_id) ==
    /\ CanServe(session_id)
    /\ LET sid == SessionIdFor(sessions, session_id)
           human == ChatMsg("human", thist.made + 1, TRUE, FALSE)
           ss == repo_add_message(get_or_create_session(sessions, session_id), sid, human)
       IN  /\ sessions' = ss
           /\ graph' = StartRun("stream", sid, "text", "text", FALSE, ss[sid].messages)
    /\ thist' = [thist EXCEPT !.made = @ + 1, !.turns = @ + 1]
    /\ UNCHANGED <<parked, vh>>
    /\ UNCHANGED <<sessionVars, out, apiVars>>

\* the run after node ran and returned the messages new, going to next
Stepped(g, node, new, next) ==
    [g EXCEPT !.messages = add_messages(@, new),
              !.trace = Append(@, Visit(node, new # <<>> /\ new[Len(new)].tool_calls)),
              !.yielding = FALSE,
              !.pc = next]

\* stt_node: the transcription becomes a human message, or the call fails
SttNode ==
    /\ graph.pc = "stt"
    /\ \/ /\ graph' = [Stepped(graph, "stt",
                               <<ChatMsg("human", thist.made + 1, TRUE, FALSE)>>, "prompt")
                        EXCEPT !.transcription = TRUE]
          /\ thist' = [thist EXCEPT !.made = @ + 1]
       \/ /\ graph' = Stepped(graph, "stt", <<>>, "prompt")
          /\ UNCHANGED thist
    /\ UNCHANGED <<sessions, parked, vh>>
    /\ UNCHANGED <<sessionVars, out, apiVars>>

\* prompt_node: the system message is added unless one is present
PromptNode ==
    /\ graph.pc = "prompt"
    /\ IF \E i \in 1..Len(graph.messages) : graph.messages[i].role = "system"
       THEN /\ graph' = Stepped(graph, "prompt", <<>>, "llm")
            /\ UNCHANGED thist
       ELSE /\ graph' = Stepped(graph, "prompt",
                                <<ChatMsg("system", thist.made + 1, TRUE, FALSE)>>, "llm")
            /\ thist' = [thist EXCEPT !.made = @ + 1]
    /\ UNCHANGED <<sessions, parked, vh>>
    /\ UNCHANGED <<sessionVars, out, apiVars>>

\* llm_node and the edge should_use_tools: the model answers with text,
\* with nothing, or with tool calls.  stream_text yields the content of the
\* message.
LlmNode ==
    /\ graph.pc = "llm"
    /\ \E content, tool_calls \in BOOLEAN :
        /\ ~(content /\ tool_calls)
        /\ tool_calls => graph.rounds < MaxToolRounds
        /\ LET new == <<ChatMsg("ai", thist.made + 1, content, tool_calls)>>
               next == IF should_use_tools(add_messages(graph.messages, new)) = "tools"
                       THEN "tools" ELSE "output_router"
           IN  graph' = [Stepped(graph, "llm", new, next) EXCEPT
                            !.collected = @ \/ (graph.kind = "stream" /\ content),
                            !.yielding = graph.kind = "stream" /\ content]
    /\ thist' = [thist EXCEPT !.made = @ + 1]
    /\ UNCHANGED <<sessions, parked, vh>>
    /\ UNCHANGED <<sessionVars, out, apiVars>>

\* llm_node: llm.invoke raises; graph.invoke / graph.stream raises and the
\* turn ends without storing anything more
LlmRaises ==
    /\ graph.pc = "llm"
    /\ graph' = GraphIdle
    /\ UNCHANGED <<sessions, parked, thist, vh>>
    /\ UNCHANGED <<sessionVars, out, apiVars>>

\* tools_node: ToolNode answers the tool calls of the last message
ToolsNode ==
    /\ graph.pc = "tools"
    /\ graph' = [Stepped(graph, "tools",
                         <<ChatMsg("tool", thist.made + 1, TRUE, FALSE)>>, "llm")
                  EXCEPT !.rounds = @ + 1]
    /\ thist' = [thist EXCEPT !.made = @ + 1]
    /\ UNCHANGED <<sessions, parked, vh>>
    /\ UNCHANGED <<sessionVars, out, apiVars>>

\* output_router and the edge should_generate_audio
OutputRouter ==
    /\ graph.pc = "output_router"
    /\ graph' = Stepped(graph, "output_router", <<>>,
                        should_generate_audio(graph.output_type))
    /\ UNCHANGED <<sessions, parked, thist, vh>>
    /\ UNCHANGED <<sessionVars, out, apiVars>>

\* tts_node: speech for the last AI message with content, if the call
\* succeeds
TtsNode ==
    /\ graph.pc = "tts"
    /\ \E ok \in BOOLEAN :
        graph' = [Stepped(graph, "tts", <<>>, "end") EXCEPT
                    !.audio_output = ok /\ HasResponseText(graph.messages)]
    /\ UNCHANGED <<sessions, parked, thist, vh>>
    /\ UNCHANGED <<sessionVars, out, apiVars>>

\* send_text / send_audio after graph.invoke: session.messages =
\* list(result["messages"]); stream_text after graph.stream: the collected
\* response is added to the session
TurnEnd ==
    /\ graph.pc = "end"
    /\ IF graph.kind = "stream"
       THEN IF graph.collected
            THEN /\ sessions' = repo_add_message(sessions, graph.sid,
                                    ChatMsg("ai", thist.made + 1, TRUE, FALSE))
                 /\ thist' = [thist EXCEPT !.made = @ + 1]
            ELSE UNCHANGED <<sessions, thist>>
       ELSE /\ sessions' = [sessions EXCEPT ![graph.sid].messages = graph.messages]
            /\ UNCHANGED thist
    /\ graph' = GraphIdle
    /\ UNCHANGED <<parked, vh>>
    /\ UNCHANGED <<sessionVars, out, apiVars>>

\* the generator of stream_text stays suspended at its yield while the
\* event loop serves other requests
Park ==
    /\ graph.kind = "stream" /\ graph.yielding
    /\ parked.pc = "idle"
    /\ parked' = graph
    /\ graph' = GraphIdle
    /\ UNCHANGED <<sessions, thist, vh>>
    /\ UNCHANGED <<sessionVars, out, apiVars>>

\* the event loop resumes the suspended generator
Resume ==
    /\ graph.pc = "idle"
    /\ parked.pc # "idle"
    /\ graph' = parked
    /\ parked' = GraphIdle
    /\ UNCHANGED <<sessions, thist, vh>>
    /\ UNCHANGED <<sessionVars, out, apiVars>>

\* ChatRepository.clear_session(session_id)
ClearSession(session_id) ==
    /\ graph.pc = "idle"
    /\ thist.turns + thist.clears < MaxChatOps
    /\ sessions' = clear_session(sessions, session_id)
    /\ thist' = [thist EXCEPT !.clears = @ + 1]
    /\ UNCHANGED <<graph, parked, vh>>
    /\ UNCHANGED <<sessionVars, out, apiVars>>

\* ChatRepository.delete_session(session_id)
DeleteSession(session_id) ==
    /\ graph.pc = "idle"
    /\ thist.turns + thist.clears < MaxChatOps
    /\ sessions' = delete_session(sessions, session_id)
    /\ thist' = [thist EXCEPT !.clears = @ + 1]
    /\ UNCHANGED <<graph, parked, vh>>
    /\ UNCHANGED <<sessionVars, out, apiVars>>

\* ------------------------------------ realtime voice: RealtimeVoiceHandler
\* RealtimeVoiceHandler.__init__; turn: responses the remote endpoint has
\* begun, chunks / starts: audio chunks and on_assistant_speech_start calls
\* of the current response, ends: on_assistant_speech_end calls.  lock: the
\* threading.Lock _lock is held; blocked: the threads waiting for it for ever:
\* "loop" is the thread of the client's event loop, which runs the
\* callbacks of the client, "app" the thread of the application
VhInit ==
    [current_user_transcript |-> <<>>, current_assistant_transcript |-> <<>>,
     is_assistant_speaking |-> FALSE, history |-> <<>>,
     lock |-> FALSE, blocked |-> {},
     turn |-> 0, chunks |-> 0, starts |-> 0, ends |-> 0, events |-> 0]

\* the remote endpoint begins a response.  initialize() gives the client
\* on_audio, on_transcript and on_error only, so response.created,
\* response.audio_transcript.done and response.done reach no method of the
\* handler
VhResponseCreated ==
    /\ vh.events < MaxVhEvents
    /\ "loop" \notin vh.blocked
    /\ vh' = [vh EXCEPT !.turn = @ + 1, !.chunks = 0, !.starts = 0,
                        !.events = @ + 1]
    /\ UNCHANGED <<sessionVars, out, apiVars, textVars>>

\* _handle_audio_output: on_assistant_speech_start on a chunk that finds
\* _is_assistant_speaking False
handle_audio_output(h) ==
    [h EXCEPT !.is_assistant_speaking = TRUE,
              !.starts = IF h.is_assistant_speaking THEN @ ELSE @ + 1,
              !.chunks = @ + 1]

\* on_audio of the client: an audio chunk of the current response
VhAudio ==
    /\ vh.events < MaxVhEvents
    /\ "loop" \notin vh.blocked
    /\ vh.turn > 0
    /\ vh' = [handle_audio_output(vh) EXCEPT !.events = @ + 1]
    /\ UNCHANGED <<sessionVars, out, apiVars, textVars>>

\* "with self._lock" in thread who: the thread waits for ever when the lock is
\* held by a thread that waits for ever
WaitsForLock(h, who) == [h EXCEPT !.blocked = @ \cup {who}]

\* a callback invoked under "with self._lock" calls flush_user_transcript or
\* flush_assistant_transcript: the thread who waits for the lock it holds
Reentered(h, who) == [h EXCEPT !.lock = TRUE, !.blocked = @ \cup {who}]

\* _handle_transcript, up to the call of on_transcript_delta
handle_transcript(h, role, text) ==
    IF role = "user"
    THEN [h EXCEPT !.current_user_transcript = @ \o text]
    ELSE [h EXCEPT !.current_assistant_transcript = @ \o text]

\* on_transcript of the client: a transcript delta of the assistant or the
\* transcription of the user's speech; reenters: on_transcript_delta calls a
\* flush method of the handler
VhTranscript(role, text, reenters) ==
    /\ vh.events < MaxVhEvents
    /\ "loop" \notin vh.blocked
    /\ role = "assistant" => vh.turn > 0
    /\ LET h == [vh EXCEPT !.events = @ + 1]
       IN  vh' = IF h.lock THEN WaitsForLock(h, "loop")
                 ELSE IF reenters THEN Reentered(handle_transcript(h, role, text), "loop")
                 ELSE handle_transcript(h, role, text)
    /\ UNCHANGED <<sessionVars, out, apiVars, textVars>>

\* flush_user_transcript, up to the call of on_user_speech_end
flush_user_transcript(h) ==
    LET transcript == Strip(h.current_user_transcript)
    IN  IF transcript # <<>>
        THEN [h EXCEPT !.history = Append(@, transcript),
                       !.current_user_transcript = <<>>]
        ELSE h

\* flush_assistant_transcript, up to the call of on_assistant_speech_end
flush_assistant_transcript(h) ==
    LET transcript == Strip(h.current_assistant_transcript)
    IN  IF transcript # <<>>
        THEN [h EXCEPT !.history = Append(@, transcript),
                       !.current_assistant_transcript = <<>>,
                       !.is_assistant_speaking = FALSE,
                       !.ends = @ + 1]
        ELSE h

\* the application calls flush_user_transcript() or
\* flush_assistant_transcript(); reenters: the speech-end callback, invoked
\* when the transcript is not empty, calls a flush method of the handler
VhFlush(role, reenters) ==
    /\ vh.events < MaxVhEvents
    /\ "app" \notin vh.blocked
    /\ LET h == [vh EXCEPT !.events = @ + 1]
           flushed == IF role = "user" THEN flush_user_transcript(h)
                      ELSE flush_assistant_transcript(h)
       IN  /\ reenters => (~h.lock /\ flushed # h)
           /\ vh' = IF h.lock THEN WaitsForLock(h, "app")
                    ELSE IF reenters THEN Reentered(flushed, "app")
                    ELSE flushed
    /\ UNCHANGED <<sessionVars, out, apiVars, textVars>>

\* ------------------------------------------------------------ initial state
\* RealtimeClient.__init__ and ConversationState()
ExecIdle ==
    [state |-> "idle", call_id |-> "", name |-> "", arguments |-> "",
     hasResult |-> FALSE, result |-> "", invoked |-> FALSE, obj |-> {},
     open1 |-> FALSE, open2 |-> FALSE, idx1 |-> 0, idx2 |-> 0, sendFailed |-> FALSE]

ClientInit ==
    /\ ws = 0
    /\ running = FALSE
    /\ loop = 0
    /\ thread = 0
    /\ assistant_transcript = <<>>
    /\ tpc = [t \in Threads |-> "unborn"]
    /\ loopClosed = {}
    /\ conn = [t \in Threads |-> "none"]
    /\ tasks = [t \in Threads |-> <<>>]
    /\ inbound = [t \in Threads |-> <<>>]
    /\ outbound = <<>>
    /\ exec = ExecIdle
    /\ startPc = [c \in Callers |-> "idle"]
    /\ state = [is_active |-> FALSE, is_ai_speaking |-> FALSE, current_text |-> <<>>,
                messages |-> <<>>, error |-> ""]
    /\ hist = HistInit(MaxMsgs)

\* every object as constructed
Init ==
    /\ ClientInit
    /\ out = OutInit
    /\ tm = TmInit
    /\ api = ApiInit
    /\ TextInit
    /\ vh = VhInit
    /\ registry = RegistryInit

\* ------------------------------------------------------------------ helpers
\* threading.Thread.is_alive()
is_alive(t) == tpc[t] \notin {"unborn", "done"}

\* the event loop of thread t is inside run_until_complete
LoopRunning(t) == tpc[t] \in {"connecting", "configuring", "receiving", "exec_create"}

\* RealtimeClient.is_connected
is_connected == running /\ ws # 0

\* ws.send(...) on self._ws succeeds only on an open connection
CanSend == ws # 0 /\ conn[ws] = "open"

CloseTask(w) == [kind |-> "close", w |-> w, bytes |-> <<>>]
AudioTask(bytes) == [kind |-> "send_audio", w |-> 0, bytes |-> bytes]

\* ---------------------------------------------------------- caller: start()
\* start(): if self._thread and self._thread.is_alive(): return
StartCheck(c) ==
    /\ startPc[c] = "idle"
    /\ startPc' = [startPc EXCEPT ![c] =
                     IF thread # 0 /\ is_alive(thread) THEN "idle" ELSE "create"]
    /\ UNCHANGED <<clientVars, tpc, loopClosed, conn, tasks, inbound, outbound, exec,
                   appVars, hist>>
    /\ UNCHANGED libVars

\* start(): self._thread = threading.Thread(...); self._thread.start()
StartCreate(c) ==
    /\ startPc[c] = "create"
    /\ \E t \in Threads :
        /\ tpc[t] = "unborn"
        /\ \A u \in Threads : u < t => tpc[u] # "unborn"
        /\ thread' = t
        /\ tpc' = [tpc EXCEPT ![t] = "born"]
    /\ startPc' = [startPc EXCEPT ![c] = "polling"]
    /\ hist' = [hist EXCEPT !.stopReturned = FALSE, !.fatal = FALSE]
    /\ UNCHANGED <<ws, running, loop, assistant_transcript, loopClosed, conn, tasks,
                   inbound, outbound, exec, appVars>>
    /\ UNCHANGED libVars

\* start(): the polling loop ends: _running was seen true, or 50 polls passed
StartReturn(c) ==
    /\ startPc[c] = "polling"
    /\ startPc' = [startPc EXCEPT ![c] = "idle"]
    /\ UNCHANGED <<clientVars, tpc, loopClosed, conn, tasks, inbound, outbound, exec,
                   appVars, hist>>
    /\ UNCHANGED libVars

\* ------------------------------------------------- background thread: _run
\* _run_in_thread: self._loop = asyncio.new_event_loop()
NewLoop(t) ==
    /\ tpc[t] = "born"
    /\ loop' = t
    /\ tpc' = [tpc EXCEPT ![t] = "connecting"]
    /\ UNCHANGED <<ws, running, thread, assistant_transcript, loopClosed, conn, tasks,
                   inbound, outbound, exec, startPc, appVars, hist>>
    /\ UNCHANGED libVars

\* ConnectFailureCalls without any on_error call
ConnectFailureSilent == <<>>

\* _connect and _run when the connection attempt or the configuration fails:
\* on_error in _connect, the exception re-raised, on_error again in _run,
\* self._running = False
ConnectFailureCalls == <<OnError("Connection error"), OnError("Realtime API error")>>

\* _connect: self._ws = await websockets.connect(...)
Connect(t) ==
    /\ tpc[t] = "connecting"
    /\ \/ /\ ws' = t
          /\ conn' = [conn EXCEPT ![t] = "open"]
          /\ tpc' = [tpc EXCEPT ![t] = "configuring"]
          /\ UNCHANGED <<running, state, hist>>
       \/ /\ running' = FALSE
          /\ state' = ApplyCallbacks(state, ConnectFailureCalls)
          /\ hist' = Invoked(hist, ConnectFailureCalls)
          /\ tpc' = [tpc EXCEPT ![t] = "finishing"]
          /\ UNCHANGED <<ws, conn>>
    /\ UNCHANGED <<loop, thread, assistant_transcript, loopClosed, tasks, inbound,
                   outbound, exec, startPc>>
    /\ UNCHANGED libVars

\* _connect: await self._configure_session(); then _run: self._running = True
Configure(t) ==
    /\ tpc[t] = "configuring"
    /\ IF CanSend
       THEN /\ outbound' = Append(outbound, OutSessionUpdate)
            /\ running' = TRUE
            /\ tpc' = [tpc EXCEPT ![t] = "receiving"]
            /\ UNCHANGED <<state, hist>>
       ELSE /\ running' = FALSE
            /\ state' = ApplyCallbacks(state, ConnectFailureCalls)
            /\ hist' = Invoked(hist, ConnectFailureCalls)
            /\ tpc' = [tpc EXCEPT ![t] = "finishing"]
            /\ UNCHANGED outbound
    /\ UNCHANGED <<ws, loop, thread, assistant_transcript, loopClosed, conn, tasks,
                   inbound, exec, startPc>>
    /\ UNCHANGED libVars

\* ------------------------------------ event loop: _receive_loop, dispatch
\* hist after thread t handled msg with the callbacks calls
Handled(h, msg, calls) ==
    LET parsed == ParseArguments(msg.arguments)
        isCall == msg.type = "response.function_call_arguments.done"
        cases == IF ~isCall \/ ~parsed.ok THEN {}
                 ELSE IF msg.name \notin tool_handlers THEN {"unknown"}
                 ELSE IF CallHandler(msg.name, parsed).raised THEN {"raised"}
                 ELSE {}
    IN  [Invoked(h, calls) EXCEPT
            !.lastSeq = msg.seq,
            !.outOfOrder = @ \/ (msg.seq # 0 /\ msg.seq # h.lastSeq + 1),
            !.fatal = @ \/ msg.type = "error",
            !.toolCases = @ \cup cases,
            !.turn = ObserveTurn(@, msg, calls)]

\* _execute_function up to its first await: parse, look up, run the handler,
\* send the function result.  A send on a closed connection raises and lands
\* in the outer except, like a json.loads failure: on_error("Tool error: ...")
ToolErrorCalls == <<OnError("Tool error")>>

ExecuteFunction(t, msg) ==
    LET r == ToolResult(msg.name, msg.arguments)
        e == [ExecIdle EXCEPT !.call_id = msg.call_id, !.name = msg.name,
                              !.arguments = msg.arguments, !.hasResult = r.hasResult,
                              !.result = r.result, !.invoked = r.invoked, !.obj = r.obj]
    IN  IF r.hasResult /\ CanSend
        THEN /\ outbound' = Append(outbound, OutFunctionResult(msg.call_id, r.result))
             /\ exec' = [e EXCEPT !.state = "sending", !.open1 = TRUE,
                                  !.idx1 = Len(outbound) + 1]
             /\ tpc' = [tpc EXCEPT ![t] = "exec_create"]
             /\ hist' = Handled(hist, msg, <<>>)
             /\ UNCHANGED state
        ELSE /\ exec' = [e EXCEPT !.state = "done", !.sendFailed = r.hasResult]
             /\ state' = ApplyCallbacks(state, ToolErrorCalls)
             /\ hist' = Handled(hist, msg, ToolErrorCalls)
             /\ UNCHANGED <<outbound, tpc>>

\* "async for" taking the frame received last instead of the oldest
NextEventNewest(queue) ==
    [msg |-> queue[Len(queue)], rest |-> SubSeq(queue, 1, Len(queue) - 1)]
\* _receive_loop: "async for message in self._ws" yields the oldest frame
\* received and not yet handled
NextEvent(queue) == [msg |-> Head(queue), rest |-> Tail(queue)]

\* _receive_loop: json.loads(message) raises, or _handle_message raises in
\* base64.b64decode
Raises(msg) ==
    \/ ~msg.json
    \/ msg.type = "response.audio.delta" /\ msg.audio # "" /\ B64Raises(msg.audio)

\* _receive_loop: except Exception as e: self.on_error(str(e))
LoopErrorCalls == <<OnError("receive loop error")>>

\* _receive_loop: one iteration of "async for message in self._ws", with
\* _handle_message on the message received
HandleMessage(t) ==
    /\ tpc[t] = "receiving"
    /\ conn[t] = "open"
    /\ inbound[t] # <<>>
    /\ ~Raises(NextEvent(inbound[t]).msg)
    /\ LET msg == NextEvent(inbound[t]).msg
           calls == HandleCalls(msg, assistant_transcript)
       IN  IF msg.type = "response.function_call_arguments.done"
           THEN /\ ExecuteFunction(t, msg)
                /\ UNCHANGED assistant_transcript
           ELSE /\ assistant_transcript' = NewTranscript(msg, assistant_transcript)
                /\ state' = ApplyCallbacks(state, calls)
                /\ hist' = Handled(hist, msg, calls)
                /\ UNCHANGED <<outbound, exec, tpc>>
    /\ inbound' = [inbound EXCEPT ![t] = NextEvent(@).rest]
    /\ UNCHANGED <<ws, running, loop, thread, loopClosed, conn, tasks, startPc>>
    /\ UNCHANGED libVars

\* _receive_loop: the iteration raises: the exception leaves the async for,
\* on_error is invoked and _receive_loop returns; _run returns without
\* touching _running and the frames still buffered are never read
HandleRaises(t) ==
    /\ tpc[t] = "receiving"
    /\ conn[t] = "open"
    /\ inbound[t] # <<>>
    /\ Raises(NextEvent(inbound[t]).msg)
    /\ state' = ApplyCallbacks(state, LoopErrorCalls)
    /\ hist' = Handled(hist, NextEvent(inbound[t]).msg, LoopErrorCalls)
    /\ tpc' = [tpc EXCEPT ![t] = "finishing"]
    /\ inbound' = [inbound EXCEPT ![t] = <<>>]
    /\ UNCHANGED <<clientVars, loopClosed, conn, tasks, outbound, exec, startPc>>
    /\ UNCHANGED libVars

\* _execute_function after the function result went out: the second send,
\* response.create
ExecCreate(t) ==
    /\ tpc[t] = "exec_create"
    /\ IF CanSend
       THEN /\ outbound' = Append(outbound, OutResponseCreate)
            /\ exec' = [exec EXCEPT !.state = "done", !.open2 = TRUE,
                                    !.idx2 = Len(outbound) + 1]
            /\ UNCHANGED <<state, hist>>
       ELSE /\ exec' = [exec EXCEPT !.state = "done", !.sendFailed = TRUE]
            /\ state' = ApplyCallbacks(state, ToolErrorCalls)
            /\ hist' = Invoked(hist, ToolErrorCalls)
            /\ UNCHANGED outbound
    /\ tpc' = [tpc EXCEPT ![t] = "receiving"]
    /\ UNCHANGED <<clientVars, loopClosed, conn, tasks, inbound, startPc>>
    /\ UNCHANGED libVars

\* _receive_loop: the iteration ends on a closed connection (ConnectionClosed
\* is swallowed), _run returns without touching _running
RecvEnd(t) ==
    /\ tpc[t] = "receiving"
    /\ conn[t] \in {"closed_local", "closed_remote"}
    /\ tpc' = [tpc EXCEPT ![t] = "finishing"]
    /\ inbound' = [inbound EXCEPT ![t] = <<>>]
    /\ hist' = [hist EXCEPT !.fatal = @ \/ conn[t] = "closed_remote"]
    /\ UNCHANGED <<clientVars, loopClosed, conn, tasks, outbound, exec, startPc, appVars>>
    /\ UNCHANGED libVars

\* _run_in_thread: finally: self._loop.close().  self._loop is read again
\* here: closing another thread's running loop raises and closes nothing
Finish(t) ==
    /\ tpc[t] = "finishing"
    /\ tpc' = [tpc EXCEPT ![t] = "done"]
    /\ loopClosed' = IF loop # t /\ LoopRunning(loop) THEN loopClosed
                     ELSE loopClosed \cup {loop}
    /\ UNCHANGED <<clientVars, conn, tasks, inbound, outbound, exec, startPc, appVars,
                   hist>>
    /\ UNCHANGED libVars

\* The event loop of thread t runs the next coroutine handed to it by
\* run_coroutine_threadsafe: self._ws.close() or _send_audio(audio_bytes)
RunTask(t) ==
    /\ LoopRunning(t)
    /\ tasks[t] # <<>>
    /\ LET task == Head(tasks[t])
       IN  IF task.kind = "close"
           THEN /\ conn' = [conn EXCEPT ![task.w] =
                              IF @ = "open" THEN "closed_local" ELSE @]
                /\ UNCHANGED <<outbound, hist>>
           ELSE /\ IF CanSend
                   THEN /\ outbound' = Append(outbound, OutAudioAppend(task.bytes))
                        /\ hist' = [hist EXCEPT !.audioWhileStopped = @ \/ ~running]
                   ELSE UNCHANGED <<outbound, hist>>
                /\ UNCHANGED conn
    /\ tasks' = [tasks EXCEPT ![t] = Tail(@)]
    /\ UNCHANGED <<clientVars, tpc, loopClosed, inbound, exec, startPc, appVars>>
    /\ UNCHANGED libVars

\* ------------------------------------------------- caller: stop, send_audio
\* asyncio.run_coroutine_threadsafe(coro, self._loop) raises RuntimeError
\* ("Event loop is closed") once that loop was closed
LoopIsClosed == loop \in loopClosed

\* stop() that only clears _running and hands nothing to the loop
StopClosesNever == FALSE
\* stop(): if self._loop and self._ws: run_coroutine_threadsafe(ws.close(), loop)
StopCloses == loop # 0 /\ ws # 0

\* hist after one RealtimeClient.stop(); stopRaised: a stop() that was not
\* the first one raised
Stopped(h) ==
    [h EXCEPT !.stopReturned = TRUE,
              !.stops = @ + 1,
              !.stopRaised = @ \/ (h.stopReturned /\ StopCloses /\ LoopIsClosed)]

\* RealtimeClient.stop: the fields it writes and the coroutine it schedules
ClientStop ==
    /\ running' = FALSE
    /\ IF StopCloses /\ ~LoopIsClosed
       THEN /\ Len(tasks[loop]) < MaxTasks
            /\ tasks' = [tasks EXCEPT ![loop] = Append(@, CloseTask(ws))]
       ELSE UNCHANGED tasks

\* RealtimeClient.stop()
Stop ==
    /\ hist.stops < MaxStops
    /\ ClientStop
    /\ hist' = Stopped(hist)
    /\ UNCHANGED <<ws, loop, thread, assistant_transcript, tpc, loopClosed, conn,
                   inbound, outbound, exec, startPc, appVars>>
    /\ UNCHANGED libVars

\* RealtimeClient.send_audio(audio_bytes)
SendAudio(bytes) ==
    /\ hist.audioCalls < MaxAudio
    /\ IF loop # 0 /\ running /\ ~LoopIsClosed
       THEN /\ Len(tasks[loop]) < MaxTasks
            /\ tasks' = [tasks EXCEPT ![loop] = Append(@, AudioTask(bytes))]
       ELSE UNCHANGED tasks
    /\ hist' = [hist EXCEPT !.audioCalls = @ + 1,
                            !.sendRaised = @ \/ (loop # 0 /\ running /\ LoopIsClosed)]
    /\ UNCHANGED <<clientVars, tpc, loopClosed, conn, inbound, outbound, exec, startPc,
                   appVars>>
    /\ UNCHANGED libVars

\* _handle_message on thread t, where the last callback it invokes calls
\* RealtimeClient.stop() before it returns: stop() runs on the thread of the
\* event loop, hands ws.close() to the loop and returns at once
HandleStopping(t) ==
    /\ tpc[t] = "receiving"
    /\ conn[t] = "open"
    /\ inbound[t] # <<>>
    /\ hist.stops < MaxStops
    /\ LET msg == NextEvent(inbound[t]).msg
           calls == HandleCalls(msg, assistant_transcript)
       IN  /\ ~Raises(msg)
           /\ msg.type # "response.function_call_arguments.done"
           /\ calls # <<>>
           /\ assistant_transcript' = NewTranscript(msg, assistant_transcript)
           /\ state' = ApplyCallbacks(state, calls)
           /\ hist' = Stopped(Handled(hist, msg, calls))
    /\ ClientStop
    /\ inbound' = [inbound EXCEPT ![t] = NextEvent(@).rest]
    /\ UNCHANGED <<ws, loop, thread, tpc, loopClosed, conn, outbound, exec, startPc>>
    /\ UNCHANGED libVars

\* ---------------------------------------------------------- remote endpoint
\* The remote endpoint sends msg on connection t
RemoteSend(t, msg) ==
    /\ conn[t] = "open"
    /\ hist.msgsLeft > 0
    /\ Len(inbound[t]) < MaxInflight
    /\ inbound' = [inbound EXCEPT ![t] = Append(@, msg)]
    /\ hist' = [hist EXCEPT !.msgsLeft = @ - 1]
    /\ UNCHANGED <<clientVars, tpc, loopClosed, conn, tasks, outbound, exec, startPc,
                   appVars>>
    /\ UNCHANGED libVars

\* The remote endpoint (or the network) closes connection t
RemoteClose(t) ==
    /\ conn[t] = "open"
    /\ conn' = [conn EXCEPT ![t] = "closed_remote"]
    /\ UNCHANGED <<clientVars, tpc, loopClosed, tasks, inbound, outbound, exec, startPc,
                   appVars, hist>>
    /\ UNCHANGED libVars

\* ------------------------------------------------------------ specifications
\* microphone blocks given to send_audio
AudioBlocks == {<<"A", "B">>}

\* events of the remote endpoint in the lifecycle specification
LifeMsgs == {ErrorEvent, TranscriptDelta(<<"a">>)}

\* Lifecycle: a constructed client, callers starting and stopping it
Next ==
    \/ \E c \in Callers : StartCheck(c)
    \/ \E c \in Callers : StartCreate(c)
    \/ \E c \in Callers : StartReturn(c)
    \/ \E t \in Threads : NewLoop(t)
    \/ \E t \in Threads : Connect(t)
    \/ \E t \in Threads : Configure(t)
    \/ \E t \in Threads : HandleMessage(t)
    \/ \E t \in Threads : RecvEnd(t)
    \/ \E t \in Threads : Finish(t)
    \/ \E t \in Threads : RunTask(t)
    \/ \E t \in Threads : RemoteClose(t)
    \/ \E t \in Threads, msg \in LifeMsgs : RemoteSend(t, msg)
    \/ \E bytes \in AudioBlocks : SendAudio(bytes)
    \/ Stop

Spec == Init /\ [][Next]_vars

\* Lifecycle with one calling thread: start() and stop() are called from the
\* same thread, one after the other
SingleNext ==
    \/ StartCheck(1)
    \/ StartCreate(1)
    \/ StartReturn(1)
    \/ \E t \in Threads : NewLoop(t)
    \/ \E t \in Threads : Connect(t)
    \/ \E t \in Threads : Configure(t)
    \/ \E t \in Threads : HandleMessage(t)
    \/ \E t \in Threads : RecvEnd(t)
    \/ \E t \in Threads : Finish(t)
    \/ \E t \in Threads : RunTask(t)
    \/ \E t \in Threads : RemoteClose(t)
    \/ \E t \in Threads, msg \in LifeMsgs : RemoteSend(t, msg)
    \/ Stop

SpecSingle == Init /\ [][SingleNext]_vars

\* A session the application has started and found connected: thread 1 is in
\* its receive loop on the open connection 1
Buffered(budget, queue) ==
    /\ ws = 1
    /\ running = TRUE
    /\ loop = 1
    /\ thread = 1
    /\ assistant_transcript = <<>>
    /\ tpc = [t \in Threads |-> IF t = 1 THEN "receiving" ELSE "unborn"]
    /\ loopClosed = {}
    /\ conn = [t \in Threads |-> IF t = 1 THEN "open" ELSE "none"]
    /\ tasks = [t \in Threads |-> <<>>]
    /\ inbound = [t \in Threads |-> IF t = 1 THEN queue ELSE <<>>]
    /\ outbound = <<OutSessionUpdate>>
    /\ exec = ExecIdle
    /\ startPc = [c \in Callers |-> "idle"]
    /\ state = [is_active |-> TRUE, is_ai_speaking |-> FALSE, current_text |-> <<>>,
                messages |-> <<>>, error |-> ""]
    /\ hist = [HistInit(budget) EXCEPT !.msgsLeft = budget - Len(queue)]
    /\ out = OutInit
    /\ tm = TmInit
    /\ api = ApiInit
    /\ TextInit
    /\ vh = VhInit
    /\ registry = RegistryInit

OpenSession(budget) == Buffered(budget, <<>>)

\* events of the remote endpoint in the turn specification
TurnMsgs ==
    {ResponseCreated, ResponseDone, AudioDelta("QUI="),
     TranscriptDelta(<<"a">>), TranscriptDelta(<<"b">>), TranscriptDelta(<<>>),
     TranscriptDone, TranscriptDoneWith(<<"a", "b">>), TranscriptDoneWith(<<>>),
     UserTranscript(<<"u">>)}

\* Turn: an open session handling the events of assistant turns
TurnInit == OpenSession(MaxTurnMsgs)

TurnNext ==
    \/ \E msg \in TurnMsgs : RemoteSend(1, msg)
    \/ HandleMessage(1)

SpecTurn == TurnInit /\ [][TurnNext]_vars

\* Callback: an open session whose application calls stop() from inside its
\* callbacks and from nowhere else.  The thread of the event loop keeps
\* running.
CallbackMsgs == {ErrorEvent, TranscriptDelta(<<"a">>), UnknownEvent}

CallbackNext ==
    \/ \E msg \in CallbackMsgs : RemoteSend(1, msg)
    \/ HandleMessage(1)
    \/ HandleStopping(1)
    \/ RunTask(1)
    \/ RecvEnd(1)
    \/ Finish(1)
    \/ RemoteClose(1)

LoopStep == HandleMessage(1) \/ RunTask(1) \/ RecvEnd(1) \/ Finish(1)

CallbackInit == OpenSession(MaxTurnMsgs)

SpecCallback == CallbackInit /\ [][CallbackNext]_vars /\ WF_vars(LoopStep)

\* function calls of the remote endpoint in the tool specification
ToolNames == {"echo", "fail", "nope"}
ToolArguments == {"{\"text\": \"hi\"}", "{}", "", "[1]", "{bad"}
\* the registered echo tool with every argument string; the raising and the
\* unknown tool with arguments that parse and with arguments that do not
ToolMsgs ==
    {FunctionCall("call_1", "echo", arguments) : arguments \in ToolArguments}
    \cup {FunctionCall("call_1", name, arguments) :
            name \in ToolNames \ {"echo"}, arguments \in {"{}", "{bad"}}

\* Tool: an open session handling function calls while the caller may stop
\* it and the remote endpoint may close the connection
ToolInit == OpenSession(MaxToolMsgs)

ToolNext ==
    \/ \E msg \in ToolMsgs : RemoteSend(1, msg)
    \/ HandleMessage(1)
    \/ ExecCreate(1)
    \/ RunTask(1)
    \/ RecvEnd(1)
    \/ Finish(1)
    \/ RemoteClose(1)
    \/ \E bytes \in AudioBlocks : SendAudio(bytes)
    \/ Stop

SpecTool == ToolInit /\ [][ToolNext]_vars

\* Protocol: the remote endpoint counts its frames.  Frame k is a transcript
\* delta with the text k, a call of the echo tool with the call id call_k,
\* an event of an unknown type, an audio delta that is no base64 text, or a
\* frame that is no JSON text.
ProtoMsgAt(k) ==
    {[msg EXCEPT !.seq = k] : msg \in
        {TranscriptDelta(<<ToString(k)>>),
         FunctionCall("call_" \o ToString(k), "echo", "{\"text\": \"hi\"}"),
         UnknownEvent, AudioDelta("QUI"), Malformed}}

\* the frames 1..n, buffered in the order they were received
Bursts(n) ==
    {queue \in [1..n -> UNION {ProtoMsgAt(k) : k \in 1..n}] :
        \A k \in 1..n : queue[k] \in ProtoMsgAt(k)}

ProtoBudget == MaxBurst + MaxMsgs

\* an open session whose connection holds a burst of frames, the receive
\* loop reading them while later frames arrive
ProtoInit == \E queue \in Bursts(MaxBurst) : Buffered(ProtoBudget, queue)

ProtoNext ==
    \/ \E msg \in ProtoMsgAt(ProtoBudget - hist.msgsLeft + 1) : RemoteSend(1, msg)
    \/ HandleMessage(1)
    \/ HandleRaises(1)
    \/ ExecCreate(1)
    \/ Finish(1)

SpecProto == ProtoInit /\ [][ProtoNext]_vars

\* Text: the chat routes serving text, voice and streaming turns, clears and
\* deletes on the sessions of one repository
TextNext ==
    \/ \E session_id \in SessionIds \cup {0} : SendText(session_id)
    \/ \E session_id \in SessionIds \cup {0}, audio_input, generate_audio \in BOOLEAN :
            SendVoice(session_id, audio_input, generate_audio)
    \/ \E session_id \in SessionIds \cup {0} : StreamText(session_id)
    \/ SttNode
    \/ PromptNode
    \/ LlmNode
    \/ LlmRaises
    \/ ToolsNode
    \/ OutputRouter
    \/ TtsNode
    \/ TurnEnd
    \/ Park
    \/ Resume
    \/ \E session_id \in SessionIds : ClearSession(session_id)
    \/ \E session_id \in SessionIds : DeleteSession(session_id)

SpecText == Init /\ [][TextNext]_vars

\* texts of the transcript callbacks in the handler specification
VhTexts == {<<"a">>, <<" ">>}

\* Handler: a connected RealtimeVoiceHandler receiving the audio chunks and
\* transcripts of successive responses, with an application that may call
\* the flush methods at any time, also from inside its callbacks
HandlerNext ==
    \/ VhResponseCreated
    \/ VhAudio
    \/ \E role \in {"user", "assistant"}, text \in VhTexts, reenters \in BOOLEAN :
            VhTranscript(role, text, reenters)
    \/ \E role \in {"user", "assistant"}, reenters \in BOOLEAN : VhFlush(role, reenters)

SpecHandler == Init /\ [][HandlerNext]_vars

\* Speaker: the application appends audio chunks while the playback thread
\* drains the buffer; stop() may be called before and after start().  The
\* playback thread and the thread calling start() keep running.
AudioNext ==
    \/ \E n \in ChunkSizes : add_audio(n)
    \/ OutputStart
    \/ PlayTest
    \/ PlayTake
    \/ PlayWrite
    \/ PlayClose
    \/ OutputStop
    \/ OutputStopReturn

PlayStep == OutputStart \/ PlayTest \/ PlayTake \/ PlayWrite \/ PlayClose

SpecAudio == Init /\ [][AudioNext]_vars /\ WF_vars(PlayStep)

\* Speaker where also the thread inside stop() keeps running: its join ends
\* when the playback thread has ended or the timeout has passed
SpecSpeaker ==
    Init /\ [][AudioNext]_vars /\ WF_vars(PlayStep) /\ WF_vars(OutputStopReturn)

\* the server accepts the request, rejects the token, or is not found
ApiReplies ==
    {server \in ServerReplies :
        server.fault = "none" /\ server.body = "json" /\ server.status \in {200, 401, 404}}

\* API: threads getting and invalidating the token and making requests
\* while time passes
ApiNext ==
    \/ \E c \in Callers : GetToken(c)
    \/ \E c \in Callers : TokEnter(c)
    \/ \E c \in Callers : TokFetched(c)
    \/ \E c \in Callers : InvalidateToken(c)
    \/ \E c \in Callers : Request(c)
    \/ \E c \in Callers, server \in ApiReplies : ReqSend(c, server)
    \/ \E c \in Callers : ReqInvalidate(c)
    \/ Tick

\* The token manager as constructed, or holding the token of one earlier
\* fetch that is valid for an hour
TmWarm ==
    [TmInit EXCEPT !.token_info = [id |-> 1, expires_at |-> ExpiresAt(0, 0)],
                   !.fetches = 1]

ApiStart ==
    /\ ClientInit
    /\ out = OutInit
    /\ tm \in {TmInit, TmWarm}
    /\ api = ApiInit
    /\ TextInit
    /\ vh = VhInit
    /\ registry = RegistryInit

SpecApi == ApiStart /\ [][ApiNext]_vars

\* access tokens and answers of the OAuth endpoint in the expiry specification
Tokens ==
    {OpaqueToken, Jwt(2, "object", 5000), Jwt(4, "object", 5000),
     Jwt(3, "object", 5000), Jwt(3, "object", 0), Jwt(3, "object", -1),
     Jwt(3, "array", 0), Jwt(3, "text", 0), Jwt(3, "binary", 0)}
OAuthResponses == {OAuthResponse(e, token) : e \in ExpiresIn, token \in Tokens}

\* Expiry: one thread getting and invalidating the token while time passes,
\* against an OAuth endpoint that answers with any of OAuthResponses
ExpiryNext ==
    \/ GetToken(1)
    \/ TokEnter(1)
    \/ \E response \in OAuthResponses : TokFetchedResponse(1, response)
    \/ InvalidateToken(1)
    \/ Tick

SpecExpiry == Init /\ [][ExpiryNext]_vars

\* Registry: threads calling get_token_manager(), the first calls included
RegistryNext ==
    \/ \E c \in Callers, via \in {"direct", "client"} : RegistryCheck(c, via)
    \/ \E c \in Callers : RegistryConstruct(c)
    \/ \E c \in Callers : RegistryReturn(c)

SpecRegistry == Init /\ [][RegistryNext]_vars

\* HTTP: one thread making requests against a server that may answer
\* anything
HttpNext ==
    \/ Request(1)
    \/ TokEnter(1)
    \/ TokFetched(1)
    \/ \E server \in ServerReplies : ReqSend(1, server)
    \/ ReqInvalidate(1)

SpecHttp == Init /\ [][HttpNext]_vars

\* ------------------------------------------------------------------- claims
\* C1 (as stated): once an idle session has handled response.created, audio
\* deltas, n >= 1 transcript deltas, transcript done and response.done, the
\* speech-start, speech-stop and completed-transcript callbacks have each
\* been invoked exactly once, the last with the concatenation of the delta
\* texts, and the assistant is not speaking.
C1_TurnAsStated ==
    hist.turn.phase = "complete" =>
        /\ hist.turn.started = 1
        /\ hist.turn.stopped = 1
        /\ hist.turn.done = 1
        /\ hist.turn.text = hist.turn.concat
        /\ ~state.is_ai_speaking

\* C1 (amended): after that sequence speech-start and speech-stop have each
\* been invoked exactly once and the assistant is not speaking; the
\* completed-transcript callback received the transcript field of the
\* transcript-done event when the event carries one, else the concatenation
\* of the delta texts, exactly once when that text is not empty and not at
\* all when it is empty.
C1_TurnCallbacks ==
    hist.turn.phase = "complete" =>
        LET full_text == IF hist.turn.hasField THEN hist.turn.field
                         ELSE hist.turn.concat
        IN  /\ hist.turn.started = 1
            /\ hist.turn.stopped = 1
            /\ ~state.is_ai_speaking
            /\ IF full_text # <<>>
               THEN hist.turn.done = 1 /\ hist.turn.text = full_text
               ELSE hist.turn.done = 0

C1_Witness ==
    /\ hist.turn.phase = "complete"
    /\ hist.turn.n = 2
    /\ ~hist.turn.hasField
    /\ hist.turn.done = 1
    /\ hist.turn.text = <<"a", "b">>

\* C2: no callback of the session is invoked after stop() has returned.
C2_NoCallbackAfterStop == ~hist.lateCallback

\* C3: a repeated stop() on the same session raises no error.
C3_StopIdempotent == ~hist.stopRaised

\* C4: after stop() has returned (and no later start()), running is false.
C4_StoppedStaysClosed == hist.stopReturned => ~running

\* C5: once the remote error event was handled, or the receive loop ended on
\* a connection the remote closed, the error callback has been invoked and
\* running is false.
C5_FatalCloses == hist.fatal => (~running /\ state.error # "")

\* C6: no input_audio_buffer.append is written while running is false.
C6_AudioOnlyWhileRunning == ~hist.audioWhileStopped

\* C7: at most one connection is open and at most one background thread is
\* alive.
C7_OneConnection ==
    /\ Cardinality({t \in Threads : conn[t] = "open"}) <= 1
    /\ Cardinality({t \in Threads : is_alive(t)}) <= 1

\* The function call last executed named a registered tool with JSON-object
\* arguments its handler accepts
C8_Case ==
    LET parsed == ParseArguments(exec.arguments)
    IN  /\ exec.state = "done"
        /\ exec.name \in tool_handlers
        /\ parsed.ok /\ parsed.isObject
        /\ ~Handler(exec.name, parsed.obj).raised

C8_ResultAt(i) ==
    /\ i \in 1..Len(outbound)
    /\ outbound[i].type = "conversation.item.create"
    /\ outbound[i].call_id = exec.call_id
    /\ outbound[i].output = Handler(exec.name, ParseArguments(exec.arguments).obj).value

C8_CreateAt(i) ==
    /\ i \in 1..Len(outbound)
    /\ outbound[i].type = "response.create"

\* C8 (as stated): for such a call the handler was invoked with exactly the
\* parsed arguments and the outbound stream holds the function result, with
\* the call_id and the handler's return value, followed by a response.create.
C8_ToolAsStated ==
    C8_Case =>
        /\ exec.invoked
        /\ exec.obj = ParseArguments(exec.arguments).obj
        /\ C8_ResultAt(exec.idx1)
        /\ C8_CreateAt(exec.idx2)
        /\ exec.idx1 < exec.idx2

\* C8 (amended): for such a call the handler was invoked with exactly the
\* parsed arguments; when the connection was open at both sends the outbound
\* stream holds the function result, with the call_id and the handler's
\* return value, followed by a response.create; a response.create of the call
\* is never sent without the function result before it; and a send that
\* failed was reported through the error callback.
C8_ToolResultThenResponse ==
    C8_Case =>
        /\ exec.invoked
        /\ exec.obj = ParseArguments(exec.arguments).obj
        /\ (exec.open1 => C8_ResultAt(exec.idx1))
        /\ (exec.open1 /\ exec.open2 =>
                C8_CreateAt(exec.idx2) /\ exec.idx1 < exec.idx2)
        /\ (exec.idx2 > 0 => C8_ResultAt(exec.idx1) /\ exec.idx1 < exec.idx2)
        /\ (~(exec.open1 /\ exec.open2) =>
                exec.sendFailed /\ exec.idx2 = 0 /\ state.error = "Tool error")

C8_Witness ==
    /\ C8_Case
    /\ exec.name = "echo"
    /\ C8_ResultAt(exec.idx1)
    /\ outbound[exec.idx1].output = "hi"
    /\ C8_CreateAt(exec.idx2)

\* C9: for a function call whose arguments parse and whose tool is unknown
\* or whose handler raises, _execute_function holds a non-empty result string
\* and goes on (its caller, the receive loop, is not left by an exception).
C9_ToolFailureIsString ==
    LET parsed == ParseArguments(exec.arguments)
    IN  (/\ exec.state # "idle"
         /\ parsed.ok
         /\ exec.name \notin tool_handlers \/ CallHandler(exec.name, parsed).raised)
        => /\ exec.hasResult
           /\ exec.result # ""
           /\ exec.result \in
                {"Error: Unknown function '" \o exec.name \o "'",
                 "Error executing " \o exec.name \o ": "
                    \o CallHandler(exec.name, parsed).value}

C9_Witness ==
    /\ exec.state = "done"
    /\ hist.toolCases = {"unknown", "raised"}
    /\ exec.hasResult

\* C10: every executed function call whose sends did not fail has put one
\* function result with its call_id and a response.create after it on the
\* outbound stream.
C10_EveryCallAnswered ==
    (exec.state = "done" /\ ~exec.sendFailed) =>
        /\ exec.idx1 \in 1..Len(outbound)
        /\ outbound[exec.idx1].type = "conversation.item.create"
        /\ outbound[exec.idx1].call_id = exec.call_id
        /\ C8_CreateAt(exec.idx2)
        /\ exec.idx1 < exec.idx2

\* every appended byte has been written, in append order
AllWritten ==
    out.written = IF out.appended = 0 THEN <<>> ELSE <<<<1, out.appended>>>>

\* C11: while stop() is not called, every byte appended is eventually
\* written to the sink and the bytes written are the appended bytes in
\* append order, the last bytes of the stream included.
C11_EveryByteWritten == <>[](out.stop \/ AllWritten)

\* C12: no block is written to the output device after stop() of the audio
\* output has returned.
C12_NoWriteAfterStop == ~out.lateWrite

\* no token was invalidated and no time has passed since the start
C13_Case == tm.invalidations = 0 /\ tm.ticks = 0

\* C13 (as stated): threads calling get_token() on the empty cache trigger
\* at most one fetch and all return the token of that fetch.
C13_OneFetchAsStated ==
    C13_Case =>
        /\ tm.fetches <= 1
        /\ \A c \in Callers : api[c].kind = "token" => api[c].id = 1

\* C13 (amended): threads calling get_token() on the empty cache trigger at
\* most one fetch and all return the token of that fetch, provided no fetch
\* fails and the token fetched expires later than EXPIRATION_BUFFER seconds
\* after the fetch.
C13_OneFetch ==
    (C13_Case /\ ~tm.failed /\ ~tm.short) =>
        /\ tm.fetches <= 1
        /\ \A c \in Callers : api[c].kind = "token" => api[c].id = 1

C13_Witness ==
    /\ C13_Case
    /\ tm.contended
    /\ tm.fetches = 1
    /\ \A c \in Callers :
        api[c].op = "get_token" /\ api[c].kind = "token" /\ api[c].id = 1

\* C14: at most one thread is inside _fetch_new_token, that thread holds the
\* lock, and no invalidate_token() ran while a fetch was in progress.
C14_OneFetchAtATime ==
    /\ Cardinality({c \in Callers : api[c].pc = "fetching"}) <= 1
    /\ \A c \in Callers : api[c].pc = "fetching" => tm.lock = c
    /\ ~tm.raced

C14_Witness ==
    \E c, d \in Callers :
        /\ c # d
        /\ api[c].pc = "fetching"
        /\ api[d].pc \in {"get_token", "invalidate"}

\* C15: a token handed out by get_token() was fetched after every
\* invalidate_token() that came before the call entered the lock.
C15_FreshAfterInvalidate ==
    \A c \in Callers :
        (api[c].kind = "token" \/ api[c].pc = "send") => api[c].id > api[c].floor

C15_Witness ==
    \E c \in Callers :
        /\ api[c].op = "get_token" /\ api[c].kind = "token"
        /\ tm.ticks = 0 /\ ~tm.short
        /\ api[c].floor >= 1
        /\ api[c].id = api[c].floor + 1

\* thread c has finished a request whose first attempt failed with an
\* authentication error
C16_Case(c) ==
    /\ api[c].op = "request"
    /\ api[c].pc = "idle"
    /\ api[c].first = "APIAuthenticationError"

\* C16 (as stated): such a request invalidated the token once and was sent
\* exactly twice, the second time with a token fetched after the
\* invalidation.
C16_RetryAsStated ==
    \A c \in Callers :
        C16_Case(c) =>
            /\ api[c].invals = 1
            /\ api[c].sends = 2
            /\ api[c].id > api[c].newFloor

\* C16 (amended): such a request invalidated the token once; when a new
\* token was obtained it was sent exactly twice, the second time with a
\* token fetched after the invalidation, and ended with the outcome of the
\* second attempt; when the token fetch failed it was sent once and ended
\* with the exception of the fetch.
C16_RetryOnce ==
    \A c \in Callers :
        C16_Case(c) =>
            /\ api[c].invals = 1
            /\ IF api[c].kind = "Exception"
               THEN api[c].sends = 1
               ELSE api[c].sends = 2 /\ api[c].id > api[c].newFloor

C16_Witness ==
    \E c \in Callers :
        /\ C16_Case(c)
        /\ api[c].kind = "APIAuthenticationError"
        /\ api[c].sends = 2
        /\ api[c].invals = 1

\* C17: every finished request returned the parsed JSON body or raised one
\* of the typed API errors.
C17_TypedOutcome ==
    \A c \in Callers :
        (api[c].op = "request" /\ api[c].pc = "idle") => api[c].kind \in TypedOutcomes

\* C18: when _connect or _configure_session fails in thread t, running is
\* false and the error callback has left its message; the thread only ends
\* after that; no thread is created except by a start() call; and running
\* becomes true only when a thread's configuration succeeds.
C18_ConnectFailureCloses ==
    [][\A t \in Threads :
        /\ (tpc[t] \in {"connecting", "configuring"} /\ tpc'[t] = "finishing") =>
                /\ ~running'
                /\ state'.error # "" /\ ~state'.is_active
                /\ \A u \in Threads \ {t} : tpc'[u] = tpc[u]
        /\ tpc[t] \in {"finishing", "done"} => tpc'[t] \in {"finishing", "done"}
        /\ (tpc[t] = "unborn" /\ tpc'[t] # "unborn") =>
                \E c \in Callers : startPc[c] = "create" /\ startPc'[c] # "create"
        /\ (~running /\ running') =>
                \E u \in Threads : tpc[u] = "configuring" /\ tpc'[u] = "receiving"
      ]_vars

C18_Witness ==
    \E t \in Threads :
        /\ tpc[t] = "done"
        /\ state.error = "Realtime API error"
        /\ ~running
        /\ \A u \in Threads \ {t} : tpc[u] = "unborn"

\* C19: an event that cannot be handled (a frame that is no JSON text, an
\* audio delta that is no base64 text) is reported through on_error and
\* skipped: while the connection is open the receive loop keeps reading.
C19_BadEventSkipped ==
    conn[1] = "open" => tpc[1] \in {"receiving", "exec_create"}

\* C20: events are handled one at a time in the order they were received: no
\* event is handled before an earlier one, the deltas reach the application
\* in the order of their frames, and between the result of a tool call and
\* its response.create no later event has been handled.
C20_Increasing(text) ==
    \A i, j \in 1..Len(text) : i < j => \E k \in 1..ProtoBudget :
        /\ text[i] \in {ToString(n) : n \in 1..k - 1}
        /\ text[j] = ToString(k)
C20_OneAtATimeInOrder ==
    /\ ~hist.outOfOrder
    /\ C20_Increasing(state.current_text)
    /\ C20_Increasing(assistant_transcript)
    /\ tpc[1] = "exec_create" => exec.call_id = "call_" \o ToString(hist.lastSeq)
    /\ \A i \in 1..Len(outbound) :
            outbound[i].type = "conversation.item.create" =>
                IF i = Len(outbound)
                THEN tpc[1] = "exec_create"
                ELSE outbound[i + 1].type = "response.create"
C20_Witness ==
    /\ state.current_text = <<"1", "3">>
    /\ hist.lastSeq = 3
    /\ \E i \in 1..Len(outbound) :
            outbound[i].type = "conversation.item.create"
            /\ outbound[i].call_id = "call_2"

C22_NotReusable ==
    \A u \in Threads :
        (tpc[u] = "done" /\ conn[u] \in {"closed_local", "closed_remote"}) =>
            \A t \in Threads : t > u => conn[t] = "none"

\* C23: when start() returns while the connection of the thread it created
\* is not established (the thread has not connected or not configured the
\* session yet, or the attempt has failed), is_connected is false.
C23_StartReportsFailure ==
    [][\A c \in Callers :
        (/\ startPc[c] = "polling" /\ startPc'[c] = "idle"
         /\ \/ tpc[thread] \in {"born", "connecting", "configuring"}
            \/ tpc[thread] \in {"finishing", "done"} /\ conn[thread] = "none")
        => ~is_connected
      ]_vars

\* C24: stop() of the audio output returns once its join has ended, leaves
\* the stop flag set and the buffer empty, and a stop() called again on the
\* stopped output, or a stop() before start(), changes nothing else.
C24_StopReturnsIdempotent ==
    /\ [][/\ (out.spc = "joining" /\ out'.spc = "idle") =>
                /\ out'.stop /\ BufferLen(out') = 0
                /\ (out.stopReturned /\ BufferLen(out) = 0) =>
                        out' = [out EXCEPT !.spc = "idle"]
          /\ (out.spc = "idle" /\ out'.spc = "joining" /\ out.stopReturned) =>
                out' = [out EXCEPT !.spc = "joining", !.stops = @ + 1]
         ]_vars
    /\ (out.spc = "joining") ~> (out.spc = "idle")
C24_Witness ==
    /\ out.stops = 2 /\ out.spc = "idle" /\ out.stopReturned
    /\ out.ppc = "done" /\ out.written # <<>> /\ out.appended > 0

\* C25: get_token() starts a fetch if and only if no token is cached or the
\* time is at or past the cached token's expiry minus five minutes; a fetch
\* that returns a token replaces the cache entry with it and get_token()
\* returns it; otherwise get_token() returns the cached token and neither
\* the cache nor the number of fetches changes.
C25_FetchIffExpired ==
    [][\A c \in Callers :
        /\ (api[c].pc = "get_token" /\ api'[c].pc # "get_token") =>
                IF tm.token_info.id = 0 \/ tm.now >= tm.token_info.expires_at - 300
                THEN /\ api'[c].pc = "fetching"
                     /\ tm'.fetches = tm.fetches + 1
                     /\ tm'.token_info = tm.token_info
                ELSE /\ api'[c].pc # "fetching"
                     /\ api'[c].id = tm.token_info.id
                     /\ tm' = tm
        /\ (api[c].pc = "fetching" /\ api'[c].pc # "fetching") =>
                \/ /\ tm'.token_info.id = tm.fetches
                   /\ tm'.token_info.id # tm.token_info.id
                   /\ api'[c].id = tm.fetches
                \/ /\ api'[c].kind = "Exception"
                   /\ tm'.token_info = tm.token_info
      ]_vars
C25_Witness ==
    /\ tm.ticks = 1 /\ tm.now = 3300
    /\ tm.invalidations = 0 /\ ~tm.short /\ ~tm.failed
    /\ tm.fetches = 2 /\ tm.token_info.id = 2
    /\ \E c \in Callers : api[c].kind = "token" /\ api[c].id = 2

\* every message of before is in after, in the same relative order
C26_Kept(before, after) ==
    \/ Len(before) <= Len(after) /\ SubSeq(after, 1, Len(before)) = before
    \/ /\ \A j \in 1..Len(before) : \E k \in 1..Len(after) : after[k] = before[j]
       /\ \A j \in 1..Len(before) - 1 :
            \E k1, k2 \in 1..Len(after) :
                k1 < k2 /\ after[k1] = before[j] /\ after[k2] = before[j + 1]

\* C26: no step of a text, voice or streaming turn removes or reorders a
\* message stored for a session id or replaces a known session by a new
\* one; only clear_session and delete_session do.
C26_HistoryOnlyGrows ==
    [][thist'.clears = thist.clears =>
        \A i \in SessionIds : sessions[i].exists =>
            /\ sessions'[i].exists
            /\ C26_Kept(sessions[i].messages, sessions'[i].messages)
      ]_vars
C26_Witness ==
    /\ thist.turns = 2 /\ thist.clears = 0
    /\ graph.pc = "idle" /\ parked.pc = "idle"
    /\ \E i \in SessionIds :
        LET stored == sessions[i].messages
        IN  /\ Len(stored) >= 5
            /\ stored[1].role = "human"
            /\ \E j, k \in 1..Len(stored) :
                    j < k /\ stored[j].role = "ai" /\ stored[k].role = "human"

\* the steps of run g are in the order of the text-mode graph
C27_InOrder(g) ==
    LET T == g.trace
        audio == g.input_type = "audio" /\ g.audio_input
        last == Len(T)
    IN  g.pc # "idle" =>
        /\ IF T = <<>> THEN g.pc = (IF audio THEN "stt" ELSE "prompt")
           ELSE T[1].node = (IF audio THEN "stt" ELSE "prompt")
        /\ \A i \in 1..last :
            /\ T[i].node = "stt" => i = 1
            /\ T[i].node = "prompt" => i = (IF audio THEN 2 ELSE 1)
            /\ T[i].node = "llm" =>
                    /\ i > (IF audio THEN 2 ELSE 1)
                    /\ T[i - 1].node \in {"prompt", "tools"}
            /\ T[i].node = "tools" =>
                    /\ i > 1 /\ T[i - 1].node = "llm" /\ T[i - 1].tool_calls
                    /\ IF i < last THEN T[i + 1].node = "llm" ELSE g.pc = "llm"
            /\ T[i].node = "tts" =>
                    /\ g.output_type = "audio"
                    /\ i = last /\ g.pc = "end"
                    /\ i > 2 /\ T[i - 1].node = "output_router"
                    /\ T[i - 2].node = "llm" /\ ~T[i - 2].tool_calls
        /\ g.pc = "end" =>
                /\ \E i \in 1..last : T[i].node = "llm" /\ ~T[i].tool_calls
                /\ g.output_type # "audio" => T[last].node = "output_router"

\* C27: every run of the text-mode graph visits STT first iff the input is
\* audio with audio bytes, then the prompt step once, then the LLM; the
\* tools step only right after an LLM message with tool calls and always
\* followed by the LLM; TTS at most once, last, only for audio output and
\* after an LLM message without tool calls.
C27_GraphOrder == C27_InOrder(graph) /\ C27_InOrder(parked)
C27_Witness ==
    /\ graph.pc = "end"
    /\ [i \in 1..Len(graph.trace) |-> graph.trace[i].node] =
            <<"stt", "prompt", "llm", "tools", "llm", "output_router", "tts">>

\* the receive loop of connection 1 handles an event of type type in this step
C28_Handles(type) ==
    /\ tpc[1] = "receiving"
    /\ inbound[1] # <<>>
    /\ NextEvent(inbound[1]).msg.type = type
    /\ inbound'[1] = NextEvent(inbound[1]).rest

\* C28: whenever a response.done event with no pending tool call is handled
\* while the assistant is speaking, the speech-stop callback is invoked and
\* the application is no longer in the speaking state, which gates the
\* microphone; this holds also for a response without a transcript-done event.
C28_ResponseDoneStopsSpeaking ==
    [][(C28_Handles("response.done") /\ state.is_ai_speaking) =>
            /\ Count(HandleCalls(NextEvent(inbound[1]).msg, assistant_transcript),
                     "on_speech_stopped") = 1
            /\ ~state'.is_ai_speaking
      ]_vars

\* C29: the assistant-transcript accumulator is empty at the start of every
\* assistant turn, so that the text given to the completed-transcript callback
\* holds no delta of an earlier turn, also when the earlier turn ended
\* without a transcript-done event.
C29_AccumulatorEmptyAtTurnStart ==
    [][C28_Handles("response.created") =>
            /\ assistant_transcript = <<>>
            /\ assistant_transcript' = <<>>
      ]_vars

\* C30: in the realtime voice handler the speech-start callback is invoked
\* exactly once per assistant turn, on the first audio chunk of the turn and
\* on no later chunk, in every turn of the session.
C30_SpeechStartOncePerTurn ==
    /\ vh.chunks > 0 => vh.starts = 1
    /\ vh.chunks = 0 => vh.starts = 0

\* length of the block of bytes chunk[1]..chunk[2]
C31_BlockLen(chunk) == chunk[2] - chunk[1] + 1

\* C31: every block the playback loop writes to the sink holds between 4096
\* and 8192 bytes: an iteration that finds fewer than 4096 bytes buffered
\* dequeues nothing, any other iteration dequeues at least 4096 and at most
\* 8192 bytes from the front of the buffer, and the block written is the
\* block dequeued.
C31_BlockSizes ==
    [][/\ (out.ppc = "take" /\ out'.ppc # "take") =>
            IF BufferLen(out) < 4096
            THEN out'.chunk = <<>> /\ out'.first = out.first /\ out'.ppc = "test"
            ELSE /\ out'.ppc = "write"
                 /\ out'.chunk[1] = out.first
                 /\ C31_BlockLen(out'.chunk) \in 4096..8192
                 /\ out'.first = out.first + C31_BlockLen(out'.chunk)
       /\ (out.ppc = "write" /\ out'.ppc # "write") =>
            /\ C31_BlockLen(out.chunk) \in 4096..8192
            /\ out'.written = Played(out.written, out.chunk)
      ]_vars

\* a block of 8192 bytes is being written after a block of 4096 bytes, with
\* fewer than 4096 bytes left in the buffer
C31_Witness ==
    /\ out.ppc = "write"
    /\ C31_BlockLen(out.chunk) = 8192
    /\ out.written = <<<<1, 4096>>>>
    /\ BufferLen(out) \in 1..4095

\* the token parses as a JWT carrying an expiry claim
C32_CarriesClaim(token) ==
    token.parts = 3 /\ token.payload = "object" /\ token.exp > 0

\* C32 (as stated): the expiry stored for a newly fetched token equals the
\* token's embedded expiry claim whenever the token parses as a JWT carrying
\* one, and fetch time plus one hour in every other case.
C32_ExpiryAsStated ==
    (tm.response.id # 0 /\ tm.token_info.id = tm.response.id) =>
        tm.token_info.expires_at =
            IF C32_CarriesClaim(tm.response.token) THEN tm.response.token.exp
            ELSE tm.response.at + 3600

\* C32 (amended): the expiry stored for a newly fetched token equals fetch
\* time plus expires_in when the OAuth response carries a non-zero
\* expires_in; otherwise it equals the token's embedded expiry claim when the
\* token parses as a JWT carrying one, and fetch time plus one hour in every
\* other case.
C32_ExpiryStored ==
    (tm.response.id # 0 /\ tm.token_info.id = tm.response.id) =>
        tm.token_info.expires_at =
            IF tm.response.expires_in # 0
            THEN tm.response.at + tm.response.expires_in
            ELSE IF C32_CarriesClaim(tm.response.token) THEN tm.response.token.exp
            ELSE tm.response.at + 3600

\* a token fetched at 3300 s from a response without expires_in is stored
\* with the exp claim of its JWT
C32_Witness ==
    /\ tm.response.id = 2 /\ tm.token_info.id = 2
    /\ tm.response.at = 3300
    /\ tm.response.expires_in = 0
    /\ tm.response.token = Jwt(3, "object", 5000)
    /\ tm.token_info.expires_at = 5000

\* C33: when the prompt step runs on a conversation without a system message
\* the system prompt is prepended: in the list handed to the LLM step the
\* system message comes before every other message; when a system message is
\* present the prompt step leaves the messages unchanged.
C33_SystemPromptFirst ==
    [][(graph.pc = "prompt" /\ graph'.pc = "llm") =>
            IF \E i \in 1..Len(graph.messages) : graph.messages[i].role = "system"
            THEN graph'.messages = graph.messages
            ELSE /\ Len(graph'.messages) = Len(graph.messages) + 1
                 /\ graph'.messages[1].role = "system"
                 /\ Tail(graph'.messages) = graph.messages
      ]_vars

\* C34: get_token_manager() returns the same token-manager instance to every
\* caller, also to callers that make the first call concurrently, so that
\* the clients of all threads hold the same manager.
C34_OneInstance ==
    \A c, d \in Callers :
        /\ (registry.got[c] # 0 /\ registry.got[d] # 0) =>
                registry.got[c] = registry.got[d]
        /\ (registry.client[c] # 0 /\ registry.client[d] # 0) =>
                registry.client[c] = registry.client[d]

\* C35: if the fetch fails inside get_token(), the failure reaches the
\* caller, the cached token is exactly what it was when the call entered the
\* lock (no other thread changes it while the fetch is under way) and the
\* lock is released, so that a later get_token() is not blocked and fetches
\* again.
C35_FailedFetchLeavesCache ==
    [][\A c \in Callers :
        api[c].pc = "fetching" =>
            /\ tm.lock = c
            /\ api'[c].pc = "fetching" => tm'.token_info = tm.token_info
            /\ (api'[c].pc # "fetching" /\ tm'.token_info = tm.token_info) =>
                    /\ api'[c].pc = "idle" /\ api'[c].kind = "Exception"
                    /\ tm'.lock = 0
            /\ (api'[c].pc = "idle" /\ api'[c].kind = "Exception") =>
                    /\ tm'.token_info = tm.token_info
                    /\ tm'.lock = 0
      ]_vars

\* the refresh of an expiring token failed in thread 1, the token is still
\* cached, and a later get_token() of thread 2 is fetching again
C35_Witness ==
    /\ api[1].kind = "Exception" /\ api[1].pc = "idle"
    /\ tm.failed
    /\ tm.token_info.id = 1
    /\ tm.now = 3300
    /\ api[2].pc = "fetching" /\ tm.lock = 2

\* C36: if start() returns with is_connected false, the session does not
\* become connected afterwards unless start() is called again: is_connected
\* turns true only while a start() call is waiting in its polling loop.  (A
\* start() that finds the thread alive returns at once and changes nothing.)
C36_NoConnectAfterFailedStart ==
    [][(~is_connected /\ is_connected') =>
            \E c \in Callers : startPc[c] = "polling"
      ]_vars

\* tool names advertised to the remote endpoint in the session.update
\* messages sent so far
C37_Advertised ==
    {outbound[i].tools[k] :
        i \in {j \in 1..Len(outbound) : outbound[j].type = "session.update"},
        k \in 1..Len(ConfigTools)}

\* C37: every tool name advertised in a session.update message has a handler
\* in the dispatcher of the session, and a function call that names an
\* advertised tool is never answered with the unknown-function error.
C37_AdvertisedHaveHandlers ==
    /\ \A i \in 1..Len(outbound) :
            outbound[i].type = "session.update" =>
                /\ Len(outbound[i].tools) = Len(ConfigTools)
                /\ \A k \in 1..Len(outbound[i].tools) :
                        outbound[i].tools[k] \in tool_handlers
    /\ (exec.state # "idle" /\ exec.name \in C37_Advertised /\ exec.hasResult) =>
            exec.result # "Error: Unknown function '" \o exec.name \o "'"

\* the advertised tool fail was called and its handler ran, and the result
\* of the call went out
C37_Witness ==
    /\ outbound[1].type = "session.update"
    /\ outbound[1].tools = <<"echo", "fail">>
    /\ exec.state = "done" /\ exec.name = "fail" /\ exec.invoked
    /\ exec.hasResult /\ exec.open1

C39_CallbacksMayReenter == vh.blocked = {}

\* C40: send_audio(), send_text() and commit_audio() never raise to the
\* caller in any state of the session; when the session cannot send they
\* are silent no-ops.  (The three methods have the same guard and hand their
\* coroutine to the loop in the same way; send_audio stands for them.)
C40_SendNeverRaises == ~hist.sendRaised

====
